---- MODULE Spec2Model ----
(***************************************************************************)
(* Model of the Math AI Agent backend (backend/app): the guardrail         *)
(* filters, the fallback solver of the LLM service, the /query resolution  *)
(* pipeline and the feedback manager.                                      *)
(*                                                                         *)
(* Texts are TLA+ strings; a character is a string of length 1.  Regular   *)
(* expressions of the source are transcribed as sequences of items and     *)
(* matched by the operators of the first section.  Confidences and scores  *)
(* are integers in hundredths (0.7 is 70).                                 *)
(***************************************************************************)
EXTENDS Integers, Sequences, FiniteSets, TLC

-----------------------------------------------------------------------------
(* Characters and strings (Python str, re)                                 *)

Digits == {"0", "1", "2", "3", "4", "5", "6", "7", "8", "9"}

LowerLetters ==
    {"a", "b", "c", "d", "e", "f", "g", "h", "i", "j", "k", "l", "m",
     "n", "o", "p", "q", "r", "s", "t", "u", "v", "w", "x", "y", "z"}

UpperLetters ==
    {"A", "B", "C", "D", "E", "F", "G", "H", "I", "J", "K", "L", "M",
     "N", "O", "P", "Q", "R", "S", "T", "U", "V", "W", "X", "Y", "Z"}

\* \w of re: alphanumerics and the underscore
WordChars == Digits \cup LowerLetters \cup UpperLetters \cup {"_", "²", "½", "π"}

\* \s of re, and the characters str.strip() removes
Spaces == {" ", "\t", "\n", "\r", "\f"}

UpperString == "ABCDEFGHIJKLMNOPQRSTUVWXYZ"
LowerString == "abcdefghijklmnopqrstuvwxyz"

\* the character at position i, empty outside the text
CharAt(s, i) == IF i >= 1 /\ i <= Len(s) THEN SubSeq(s, i, i) ELSE ""

\* s[lo-1:hi]
Slice(s, lo, hi) == IF lo > hi THEN "" ELSE SubSeq(s, lo, hi)

\* str.lower() on one character
LowerChar(c) ==
    IF c \in UpperLetters
    THEN LET i == CHOOSE j \in 1..26 : CharAt(UpperString, j) = c
         IN  CharAt(LowerString, i)
    ELSE c

RECURSIVE LowerStr(_)
\* str.lower()
LowerStr(s) ==
    IF Len(s) = 0 THEN ""
    ELSE IF Len(s) = 1 THEN LowerChar(s)
    ELSE LET h == Len(s) \div 2
         IN  LowerStr(SubSeq(s, 1, h)) \o LowerStr(SubSeq(s, h + 1, Len(s)))

\* str.strip(): the text without its leading and trailing whitespace
Strip(s) ==
    LET n     == Len(s)
        inner == {i \in 1..n : CharAt(s, i) \notin Spaces}
    IN  IF inner = {} THEN ""
        ELSE LET lo == CHOOSE i \in inner : \A j \in inner : i <= j
                 hi == CHOOSE i \in inner : \A j \in inner : j <= i
             IN  SubSeq(s, lo, hi)

\* s[:n]
Prefix(s, n) == IF Len(s) > n THEN SubSeq(s, 1, n) ELSE s

\* needle in s
Contains(s, needle) ==
    \E i \in 0..(Len(s) - Len(needle)) : SubSeq(s, i + 1, i + Len(needle)) = needle

-----------------------------------------------------------------------------
(* Regular expressions: a pattern is a sequence of items; matching computes *)
(* the set of end positions reachable from a set of start positions, which  *)
(* decides re.search / re.match whatever the greediness of the quantifiers. *)

Inf == -1

Cls(set, min, max)  == [k |-> "cls", set |-> set, neg |-> FALSE, min |-> min, max |-> max]
NCls(set, min, max) == [k |-> "cls", set |-> set, neg |-> TRUE, min |-> min, max |-> max]
Words(ws)           == [k |-> "words", ws |-> ws]
Alt(ps)             == [k |-> "alt", ps |-> ps]
WB                  == [k |-> "wb"]
BOS                 == [k |-> "bos"]
EOS                 == [k |-> "eos"]

One(set)  == Cls(set, 1, 1)
Plus(set) == Cls(set, 1, Inf)
Star(set) == Cls(set, 0, Inf)
Opt(set)  == Cls(set, 0, 1)
Lit(w)    == Words(<<w>>)
AnyStar   == NCls({"\n"}, 0, Inf)

ClsHit(it, c) == (c \in it.set) # it.neg

RECURSIVE RunEnd(_, _, _, _)
\* the largest j in lo-1..hi such that the characters lo..j are all in the class
RunEnd(s, it, lo, hi) ==
    IF lo > hi THEN lo - 1
    ELSE LET mid == (lo + hi) \div 2
         IN  IF \A q \in lo..mid : ClsHit(it, CharAt(s, q))
             THEN RunEnd(s, it, mid + 1, hi)
             ELSE RunEnd(s, it, lo, mid - 1)

ClsEnds(it, s, i) ==
    LET n   == Len(s)
        hi  == IF it.max = Inf \/ i + it.max > n THEN n ELSE i + it.max
        end == RunEnd(s, it, i + 1, hi)
    IN  (i + it.min)..end

IsWordAt(s, i) == i >= 1 /\ i <= Len(s) /\ CharAt(s, i) \in WordChars

\* \b at position i (between characters i and i+1)
IsWordBoundary(s, i) == IsWordAt(s, i) # IsWordAt(s, i + 1)

\* $ : at the end, or before a newline that ends the text
IsEnd(s, i) == i = Len(s) \/ (i = Len(s) - 1 /\ CharAt(s, Len(s)) = "\n")

WordEnds(ws, s, i) ==
    {i + Len(ws[a]) : a \in {b \in DOMAIN ws : /\ i + Len(ws[b]) <= Len(s)
                                               /\ SubSeq(s, i + 1, i + Len(ws[b])) = ws[b]}}

RECURSIVE MatchItems(_, _, _, _)
RECURSIVE StepItem(_, _, _)

StepItem(it, s, I) ==
    CASE it.k = "cls"   -> UNION {ClsEnds(it, s, i) : i \in I}
      [] it.k = "words" -> UNION {WordEnds(it.ws, s, i) : i \in I}
      [] it.k = "alt"   -> UNION {MatchItems(it.ps[a], 1, s, I) : a \in DOMAIN it.ps}
      [] it.k = "wb"    -> {i \in I : IsWordBoundary(s, i)}
      [] it.k = "bos"   -> {i \in I : i = 0}
      [] it.k = "eos"   -> {i \in I : IsEnd(s, i)}

MatchItems(p, k, s, I) ==
    IF k > Len(p) \/ I = {} THEN I
    ELSE MatchItems(p, k + 1, s, StepItem(p[k], s, I))

\* re.search(p, s)
Search(p, s) == MatchItems(p, 1, s, 0..Len(s)) # {}

\* re.search(p, s, re.IGNORECASE) for a pattern written in lower case
SearchI(p, s) == Search(p, LowerStr(s))

-----------------------------------------------------------------------------
(* guardrails.py : InputFilter                                             *)

W(ws) == <<WB, Words(ws), WB>>

ArithOps     == {"+", "-", "*", "/", "×", "÷"}
OperatorSyms == {"+", "-", "*", "/", "=", "<", ">", "{", "}", "[", "]", "(", ")", "^", "%"}
\* the members of [×÷±≤≥≠≈∈∉⊂⊃∪∩∫∑∏√π∞] that are in the character set of the model
UnicodeSyms  == {"×", "÷", "±"}
VarOps       == {"=", "+", "-", "*", "/", "^"}

\* ^\s*\d+\s*[+\-*/×÷]\s*\d+\s*$
PureArithmeticPattern ==
    <<BOS, Star(Spaces), Plus(Digits), Star(Spaces), One(ArithOps),
      Star(Spaces), Plus(Digits), Star(Spaces), EOS>>

\* \d+\s*[+\-*/×÷]\s*\d+
AnyArithmeticPattern ==
    <<Plus(Digits), Star(Spaces), One(ArithOps), Star(Spaces), Plus(Digits)>>

\* \b[a-z]\s*[=+\-*/^]
VariablePattern == <<WB, One(LowerLetters), Star(Spaces), One(VarOps)>>

\* \d+\s*%|\bpercent\b
PercentPattern == <<Alt(<< <<Plus(Digits), Star(Spaces), One({"%"})>>, W(<<"percent">>) >>)>>

blocked_patterns ==
    << W(<<"hack", "exploit", "attack", "malicious">>),
       <<WB, Words(<<"personal", "private", "confidential">>), Plus(Spaces),
         Lit("information"), WB>>,
       <<WB, Words(<<"generate", "create">>), Plus(Spaces),
         Words(<<"virus", "malware", "harmful">>), WB>> >>

math_indicators ==
    << W(<<"solve", "calculate", "compute", "find", "derive", "integrate",
           "differentiate", "evaluate", "simplify", "determine">>),
       W(<<"equation", "formula", "function", "theorem", "proof", "graph", "plot",
           "matrix", "vector", "expression">>),
       W(<<"algebra", "calculus", "geometry", "trigonometry", "statistics",
           "probability", "arithmetic", "mathematics">>),
       <<One(OperatorSyms)>>,
       <<One(UnicodeSyms)>>,
       <<WB, Plus(Digits), WB>>,
       <<Plus(Digits), Star(Spaces), One({"+", "-", "*", "/", "^", "×", "÷", "%"}),
         Star(Spaces), Plus(Digits)>>,
       PureArithmeticPattern,
       <<BOS, Star(Spaces), Plus(Digits), Star(Spaces), One(ArithOps), Star(Spaces),
         Plus(Digits), Star(Spaces), One(ArithOps), Star(Spaces), Plus(Digits)>>,
       W(<<"sin", "cos", "tan", "log", "ln", "exp", "sqrt", "abs", "floor", "ceil",
           "round">>),
       W(<<"sum", "integral", "derivative", "limit", "factorial", "permutation",
           "combination">>),
       W(<<"differential", "partial", "equation", "transform", "laplace", "fourier",
           "matrix", "vector", "tensor">>),
       W(<<"eigenvalue", "eigenvector", "determinant", "inverse", "transpose",
           "orthogonal">>),
       W(<<"topology", "manifold", "group", "ring", "field", "homomorphism",
           "isomorphism">>),
       W(<<"convergence", "divergence", "series", "sequence", "continuity",
           "differentiable">>),
       W(<<"polynomial", "quadratic", "linear", "exponential", "logarithmic",
           "rational", "irrational">>),
       W(<<"area", "volume", "perimeter", "circumference", "radius", "diameter",
           "angle", "triangle", "circle", "square", "rectangle">>),
       <<WB, Alt(<< <<Words(<<"mean", "median", "mode", "variance", "correlation",
                              "probability">>)>>,
                    <<Lit("standard"), Plus(Spaces), Lit("deviation")>> >>), WB>>,
       VariablePattern,
       <<WB, Star(Digits), One(LowerLetters), Star(Spaces), One({"+", "-", "*", "/", "^"})>>,
       <<WB, Alt(<< <<Lit("what"), Plus(Spaces), Lit("is")>>,
                    <<Lit("how"), Plus(Spaces), Lit("much"), Plus(Spaces), Lit("is")>>,
                    <<Lit("calculate")>> >>), Plus(Spaces), Plus(Digits)>>,
       <<Alt(<< W(<<"math">>), W(<<"mathematics">>), W(<<"mathematical">>) >>)>>,
       <<Plus(Digits), Lit("/"), Plus(Digits)>>,
       <<Plus(Digits), Lit("."), Plus(Digits)>>,
       PercentPattern,
       W(<<"degrees", "degree", "radians", "radian", "meters", "meter", "feet",
           "inches", "inche", "cm", "mm", "kg", "grams", "gram", "seconds", "second",
           "minutes", "minute", "hours", "hour">>) >>

non_math_indicators ==
    << W(<<"weather", "temperature", "climate", "rain", "snow", "sunny", "cloudy">>),
       W(<<"cook", "recipe", "food", "eat", "drink", "restaurant", "kitchen">>),
       W(<<"movie", "film", "actor", "actress", "cinema", "theater">>),
       W(<<"music", "song", "singer", "band", "album", "concert">>),
       W(<<"car", "drive", "traffic", "road", "highway", "parking">>),
       W(<<"health", "doctor", "medicine", "hospital", "sick", "disease">>),
       W(<<"politics", "government", "president", "election", "vote">>),
       W(<<"sports", "football", "basketball", "soccer", "tennis", "game">>),
       W(<<"travel", "vacation", "hotel", "flight", "airport", "tourist">>),
       W(<<"shopping", "store", "buy", "sell", "price", "money", "dollar">>),
       W(<<"work", "job", "career", "office", "business", "company">>),
       W(<<"school", "teacher", "student", "class", "homework", "grade">>),
       W(<<"family", "friend", "relationship", "love", "marriage">>),
       W(<<"computer", "software", "internet", "website", "email">>),
       W(<<"book", "read", "write", "story", "novel", "author">>) >>

max_length == 1000

\* the minimum length off by one
min_length_two == 3 - 1

min_length == 3

\* Scores are numerators over ScoreScale, so that matches / total_indicators and
\* the decimal bonuses are both integers: 1.0 is ScoreScale.
ScoreScale == 100 * Len(math_indicators)

\* a decimal given in hundredths, as a score
Score(hundredths) == hundredths * Len(math_indicators)

CountMatches(patterns, s) == Cardinality({i \in DOMAIN patterns : SearchI(patterns[i], s)})

Min(a, b) == IF a < b THEN a ELSE b
Max(a, b) == IF a > b THEN a ELSE b

\* the "Strong boosts for obvious math patterns" of _calculate_enhanced_math_score
MathBoosts(content, content_lower) ==
      (IF Search(PureArithmeticPattern, Strip(content)) THEN Score(50) ELSE 0)
    + (IF Search(AnyArithmeticPattern, content) THEN Score(30) ELSE 0)
    + (IF Search(<<WB, Words(<<"solve", "calculate", "find">>), WB, AnyStar, Lit("=")>>,
                 content_lower) THEN Score(40) ELSE 0)
    + (IF Search(VariablePattern, content) THEN Score(30) ELSE 0)
    + (IF Search(W(<<"derivative", "integral", "limit", "sum">>), content_lower)
       THEN Score(40) ELSE 0)
    + (IF Search(<<WB, Words(<<"differential", "partial">>), AnyStar, WB,
                   Lit("equation"), WB>>, content_lower) THEN Score(50) ELSE 0)
    + (IF Search(W(<<"laplace", "fourier", "transform">>), content_lower)
       THEN Score(40) ELSE 0)
    + (IF Search(W(<<"matrix", "vector", "eigenvalue", "determinant">>), content_lower)
       THEN Score(40) ELSE 0)
    + (IF Search(<<WB, Words(<<"area", "volume", "perimeter">>), WB, AnyStar, WB,
                   Words(<<"circle", "triangle", "rectangle">>), WB>>, content_lower)
       THEN Score(30) ELSE 0)
    + (IF Search(PercentPattern, content_lower) THEN Score(20) ELSE 0)

NonMathMatches(content) == CountMatches(non_math_indicators, LowerStr(content))

\* an off-domain match as a weighted deduction instead of a veto
_calculate_enhanced_math_score_weighted(content) ==
    LET content_lower == LowerStr(content)
        math_matches  == CountMatches(math_indicators, content_lower)
        total         == math_matches * 100 + MathBoosts(content, content_lower)
                            - Score(50) * NonMathMatches(content)
    IN  Max(0, Min(total, ScoreScale))

_calculate_enhanced_math_score(content) ==
    LET content_lower == LowerStr(content)
    IN  IF NonMathMatches(content) > 0 THEN 0
        ELSE LET math_matches == CountMatches(math_indicators, content_lower)
                 base_score   == math_matches * 100
             IN  Min(base_score + MathBoosts(content, content_lower), ScoreScale)

AllowedSpecial ==
    {"+", "-", "*", "/", "=", "<", ">", "(", ")", "{", "}", "[", "]", ".", ",", "?", "!"}

_contains_excessive_special_chars(content) ==
    LET plain == Digits \cup LowerLetters \cup UpperLetters \cup Spaces \cup AllowedSpecial
        special_char_count ==
            Cardinality({i \in 1..Len(content) : CharAt(content, i) \notin plain})
    IN  10 * special_char_count > 3 * Len(content)

RECURSIVE CleanRange(_, _, _)
\* re.sub(r'\s+', ' ', ...) then re.sub(r'[^\w\s+\-*/=<>(){}[\].,?!]', '', ...)
\* on the characters lo..hi of s
CleanRange(s, lo, hi) ==
    IF lo > hi THEN ""
    ELSE IF lo = hi
    THEN LET c == CharAt(s, lo)
         IN  IF c \in Spaces
             THEN (IF lo > 1 /\ CharAt(s, lo - 1) \in Spaces THEN "" ELSE " ")
             ELSE IF c \in WordChars \cup AllowedSpecial THEN c ELSE ""
    ELSE LET mid == (lo + hi) \div 2
         IN  CleanRange(s, lo, mid) \o CleanRange(s, mid + 1, hi)

_clean_content(content) == Strip(CleanRange(content, 1, Len(content)))

FilterResult(is_safe, content, message, issues, confidence) ==
    [is_safe |-> is_safe, content |-> content, message |-> message,
     issues |-> issues, confidence |-> confidence]

\* the blocked patterns searched without re.IGNORECASE
BlockedMatch_CaseSensitive(content) ==
    \E i \in DOMAIN blocked_patterns : Search(blocked_patterns[i], content)

BlockedMatch(content) == \E i \in DOMAIN blocked_patterns : SearchI(blocked_patterns[i], content)

MathThreshold == 20

RelevanceRejects(math_score) == math_score < Score(MathThreshold)

\* excessive special characters cost 0.4
InputFilterProcess_heavy(raw) ==
    IF Strip(raw) = ""
    THEN FilterResult(FALSE, "", "Empty query is not allowed", <<"empty_content">>, 100)
    ELSE
    LET stripped   == Strip(raw)
        too_long   == Len(stripped) > max_length
        content    == IF too_long THEN Prefix(stripped, max_length) ELSE stripped
        issues1    == IF too_long THEN <<"content_too_long">> ELSE <<>>
        conf1      == IF too_long THEN 100 - 10 ELSE 100
    IN  IF Len(content) < min_length
        THEN FilterResult(FALSE, content, "Query is too short", <<"content_too_short">>, 100)
        ELSE IF BlockedMatch(content)
        THEN FilterResult(FALSE, content, "Query contains potentially harmful content",
                          <<"blocked_pattern">>, 100)
        ELSE IF RelevanceRejects(_calculate_enhanced_math_score(content))
        THEN FilterResult(FALSE, content,
                 "Please enter a valid math question. Only mathematical questions are allowed.",
                 <<"non_mathematical">>, 0)
        ELSE
        LET special == _contains_excessive_special_chars(content)
            issues  == IF special THEN Append(issues1, "excessive_special_chars") ELSE issues1
            conf    == IF special THEN conf1 - 40 ELSE conf1
            is_safe == conf > 50 /\ \A i \in DOMAIN issues : issues[i] # "blocked_pattern"
        IN  FilterResult(is_safe, _clean_content(content),
                         IF is_safe THEN "Content passed safety checks"
                                    ELSE "Content failed safety checks",
                         issues, Max(0, conf))

InputFilterProcess(raw) ==
    IF Strip(raw) = ""
    THEN FilterResult(FALSE, "", "Empty query is not allowed", <<"empty_content">>, 100)
    ELSE
    LET stripped   == Strip(raw)
        too_long   == Len(stripped) > max_length
        content    == IF too_long THEN Prefix(stripped, max_length) ELSE stripped
        issues1    == IF too_long THEN <<"content_too_long">> ELSE <<>>
        conf1      == IF too_long THEN 100 - 10 ELSE 100
    IN  IF Len(content) < min_length
        THEN FilterResult(FALSE, content, "Query is too short", <<"content_too_short">>, 100)
        ELSE IF BlockedMatch(content)
        THEN FilterResult(FALSE, content, "Query contains potentially harmful content",
                          <<"blocked_pattern">>, 100)
        ELSE IF RelevanceRejects(_calculate_enhanced_math_score(content))
        THEN FilterResult(FALSE, content,
                 "Please enter a valid math question. Only mathematical questions are allowed.",
                 <<"non_mathematical">>, 0)
        ELSE
        LET special == _contains_excessive_special_chars(content)
            issues  == IF special THEN Append(issues1, "excessive_special_chars") ELSE issues1
            conf    == IF special THEN conf1 - 20 ELSE conf1
            is_safe == conf > 50 /\ \A i \in DOMAIN issues : issues[i] # "blocked_pattern"
        IN  FilterResult(is_safe, _clean_content(content),
                         IF is_safe THEN "Content passed safety checks"
                                    ELSE "Content failed safety checks",
                         issues, Max(0, conf))

-----------------------------------------------------------------------------
(* guardrails.py : OutputFilter                                            *)

blocked_phrases ==
    <<"I cannot help with", "I'm not able to assist", "This request violates",
      "I can't provide information about">>

quality_indicators ==
    << W(<<"solution", "answer", "result", "calculation">>),
       W(<<"step", "method", "approach", "process">>),
       W(<<"therefore", "thus", "hence", "so">>),
       <<One({"+", "-", "*", "/", "="})>>,
       <<WB, Plus(Digits), WB>> >>

min_answer_length == 20
max_answer_length == 2000

\* (\d+\.|•|\*)\s+ , for the members of the character set of the model
StructurePattern == <<Alt(<< <<Plus(Digits), Lit(".")>>, <<Lit("*")>> >>), Plus(Spaces)>>

\* [+\-*/=<>{}[\]()]
ExpressionPattern ==
    <<One({"+", "-", "*", "/", "=", "<", ">", "{", "}", "[", "]", "(", ")"})>>

\* in hundredths
_calculate_quality_score(content) ==
    LET matches    == CountMatches(quality_indicators, content)
        base_score == (100 * matches) \div Len(quality_indicators)
        structured == IF Search(StructurePattern, content) THEN 20 ELSE 0
        expression == IF Search(ExpressionPattern, content) THEN 10 ELSE 0
    IN  Min(100, base_score + structured + expression)

harmful_patterns ==
    << <<WB, Words(<<"personal", "private", "confidential">>), Plus(Spaces),
         Lit("information"), WB>>,
       W(<<"hack", "exploit", "attack">>),
       W(<<"illegal", "unlawful", "criminal">>) >>

_contains_harmful_content(content) ==
    \E i \in DOMAIN harmful_patterns : SearchI(harmful_patterns[i], content)

RECURSIVE SqueezeNewlines(_, _, _)
\* re.sub(r'\n{3,}', '\n\n', ...) on the characters lo..hi of s
SqueezeNewlines(s, lo, hi) ==
    IF lo > hi THEN ""
    ELSE IF lo = hi
    THEN (IF CharAt(s, lo) = "\n" /\ CharAt(s, lo - 1) = "\n" /\ CharAt(s, lo - 2) = "\n"
          THEN "" ELSE CharAt(s, lo))
    ELSE LET mid == (lo + hi) \div 2
         IN  SqueezeNewlines(s, lo, mid) \o SqueezeNewlines(s, mid + 1, hi)

RECURSIVE SqueezeBlanks(_, _, _)
\* re.sub(r' {2,}', ' ', ...) on the characters lo..hi of s
SqueezeBlanks(s, lo, hi) ==
    IF lo > hi THEN ""
    ELSE IF lo = hi
    THEN (IF CharAt(s, lo) = " " /\ CharAt(s, lo - 1) = " " THEN "" ELSE CharAt(s, lo))
    ELSE LET mid == (lo + hi) \div 2
         IN  SqueezeBlanks(s, lo, mid) \o SqueezeBlanks(s, mid + 1, hi)

_clean_output(content) ==
    LET lines == SqueezeNewlines(content, 1, Len(content))
    IN  Strip(SqueezeBlanks(lines, 1, Len(lines)))

\* the number of refusal phrases in the content
RefusalCount(content) ==
    LET lower == LowerStr(content)
    IN  Cardinality({i \in DOMAIN blocked_phrases :
                        Contains(lower, LowerStr(blocked_phrases[i]))})

\* a filter that still accepts at the threshold
SafeConfidence_inclusive(confidence) == confidence >= 40

\* is_safe = confidence > 0.4
SafeConfidence(confidence) == confidence > 40

RECURSIVE Refusals(_)
Refusals(n) == IF n = 0 THEN <<>> ELSE <<"refusal_pattern">> \o Refusals(n - 1)

OutputFilterProcess(raw) ==
    IF Strip(raw) = ""
    THEN FilterResult(FALSE, "", "Empty response is not allowed", <<"empty_response">>, 100)
    ELSE
    LET stripped  == Strip(raw)
        too_short == Len(stripped) < min_answer_length
        too_long  == Len(stripped) > max_answer_length
        content   == IF too_long THEN Prefix(stripped, max_answer_length) \o "..."
                     ELSE stripped
        refusals  == RefusalCount(content)
        low       == _calculate_quality_score(content) < 30
        issues    == (IF too_short THEN <<"response_too_short">> ELSE <<>>)
                     \o (IF too_long THEN <<"response_too_long">> ELSE <<>>)
                     \o Refusals(refusals)
                     \o (IF low THEN <<"low_quality">> ELSE <<>>)
        confidence == 100 - (IF too_short THEN 30 ELSE 0) - (IF too_long THEN 10 ELSE 0)
                          - 40 * refusals - (IF low THEN 30 ELSE 0)
    IN  IF _contains_harmful_content(content)
        THEN FilterResult(FALSE, content, "Response contains potentially harmful content",
                          <<"harmful_content">>, 0)
        ELSE LET is_safe == SafeConfidence(confidence)
             IN  FilterResult(is_safe, _clean_output(content),
                              IF is_safe THEN "Response passed safety checks"
                                         ELSE "Response has quality or safety issues",
                              issues, Max(0, confidence))

-----------------------------------------------------------------------------
(* Python numbers: int is exact; float is an IEEE-754 double, kept as sign, *)
(* integer part and the bits after the binary point (no trailing zero), and *)
(* rounded to MantissaBits significant bits, ties to even.                  *)

MantissaBits == 53

RECURSIVE BitLen(_)
\* int.bit_length()
BitLen(n) == IF n <= 0 THEN 0 ELSE 1 + BitLen(n \div 2)

Abs(n) == IF n < 0 THEN -n ELSE n

Zeros(n) == [i \in 1..n |-> 0]

\* the bits without their trailing zeros
TrimZeros(bits) ==
    LET ones == {i \in DOMAIN bits : bits[i] = 1}
    IN  IF ones = {} THEN <<>>
        ELSE SubSeq(bits, 1, CHOOSE i \in ones : \A j \in ones : j <= i)

Double(neg, int, frac) ==
    LET f == TrimZeros(frac)
    IN  [neg |-> neg /\ (int # 0 \/ f # <<>>), int |-> int, frac |-> f]

\* float(n) of a small int
IntToDouble(n) == Double(n < 0, Abs(n), <<>>)

\* bits + 1 in the last place
AddOneAtEnd(bits) ==
    LET zs == {i \in DOMAIN bits : bits[i] = 0}
    IN  IF zs = {} THEN [carry |-> 1, bits |-> Zeros(Len(bits))]
        ELSE LET j == CHOOSE i \in zs : \A q \in zs : q <= i
             IN  [carry |-> 0,
                  bits  |-> SubSeq(bits, 1, j - 1) \o <<1>> \o Zeros(Len(bits) - j)]

\* the double nearest to (-1)^neg * (int + 0.frac [+ less than one last place,
\* when sticky]), ties to even
Round53(neg, int, frac, sticky) ==
    LET ones == {i \in DOMAIN frac : frac[i] = 1}
        lead == IF ones = {} THEN 0 ELSE (CHOOSE i \in ones : \A j \in ones : i <= j) - 1
        keep == IF int > 0 THEN MantissaBits - BitLen(int) ELSE lead + MantissaBits
    IN  IF Len(frac) <= keep THEN Double(neg, int, frac)
        ELSE LET kept  == SubSeq(frac, 1, keep)
                 guard == frac[keep + 1]
                 rest  == sticky \/ \E i \in (keep + 2)..Len(frac) : frac[i] = 1
                 odd   == IF keep >= 1 THEN kept[keep] = 1 ELSE int % 2 = 1
                 up    == guard = 1 /\ (rest \/ odd)
                 inc   == AddOneAtEnd(kept)
             IN  IF up THEN Double(neg, int + inc.carry, inc.bits)
                       ELSE Double(neg, int, kept)

RECURSIVE Pow2Mod(_, _)
\* 2^k modulo b, by repeated squaring
Pow2Mod(k, b) ==
    IF k = 0 THEN 1 % b
    ELSE LET h == Pow2Mod(k \div 2, b)
         IN  (h * h * (IF k % 2 = 1 THEN 2 ELSE 1)) % b

\* the remainder left after the first n bits after the binary point of r / b,
\* for 0 <= r < b
DivRem(r, b, n) == (r * Pow2Mod(n, b)) % b

\* these n bits
DivFrac(r, b, n) == [i \in 1..n |-> IF 2 * DivRem(r, b, i - 1) >= b THEN 1 ELSE 0]

TrueDiv_floor(a, b) == IntToDouble(a \div b)

\* a / b of two ints, b # 0 (true division, correctly rounded)
TrueDiv(a, b) ==
    LET n   == Abs(a)
        m   == Abs(b)
        neg == (a < 0) # (b < 0)
        len == MantissaBits + 1 + BitLen(m)
    IN  Round53(neg, n \div m, DivFrac(n % m, m, len), DivRem(n % m, m, len) # 0)

RECURSIVE Pow2(_)
Pow2(k) == IF k = 0 THEN 1 ELSE 2 * Pow2(k - 1)

RECURSIVE BitsValue(_)
\* the bits as a binary numeral
BitsValue(bits) ==
    IF Len(bits) = 0 THEN 0
    ELSE IF Len(bits) = 1 THEN bits[1]
    ELSE LET h == Len(bits) \div 2
         IN  BitsValue(SubSeq(bits, 1, h)) * Pow2(Len(bits) - h)
                 + BitsValue(SubSeq(bits, h + 1, Len(bits)))

\* the numeral of v in w bits
ValueBits(v, w) == [i \in 1..w |-> (v \div Pow2(w - i)) % 2]

LimbBits == 16

RECURSIVE MulAcc(_, _, _)
\* k * 0.frac + carry in the last place, limb by limb from the last place:
\* the carry into the integer part and the bits after the point
MulAcc(frac, k, carry) ==
    IF Len(frac) = 0 THEN [carry |-> carry, bits |-> <<>>]
    ELSE LET w    == IF Len(frac) % LimbBits = 0 THEN LimbBits ELSE Len(frac) % LimbBits
             t    == BitsValue(SubSeq(frac, Len(frac) - w + 1, Len(frac))) * k + carry
             high == MulAcc(SubSeq(frac, 1, Len(frac) - w), k, t \div Pow2(w))
         IN  [carry |-> high.carry, bits |-> high.bits \o ValueBits(t % Pow2(w), w)]

\* k * d of an int and a float
MulInt(k, d) ==
    LET p == MulAcc(d.frac, Abs(k), 0)
    IN  Round53(d.neg # (k < 0), d.int * Abs(k) + p.carry, p.bits, FALSE)

\* 1 - 0.frac, for a fraction that ends with a 1
Complement(frac) == [i \in DOMAIN frac |-> IF i < Len(frac) THEN 1 - frac[i] ELSE 1]

\* d + c of a float and an int
AddInt(d, c) ==
    LET m == Abs(c)
        t == c < 0
    IN  IF c = 0 THEN d
        ELSE IF d.int = 0 /\ d.frac = <<>> THEN IntToDouble(c)
        ELSE IF d.neg = t THEN Round53(t, d.int + m, d.frac, FALSE)
        ELSE IF d.frac = <<>>
             THEN (IF d.int >= m THEN Double(d.neg, d.int - m, <<>>)
                                 ELSE Double(t, m - d.int, <<>>))
        ELSE IF d.int >= m THEN Round53(d.neg, d.int - m, d.frac, FALSE)
        ELSE Round53(t, m - d.int - 1, Complement(d.frac), FALSE)

-----------------------------------------------------------------------------
(* str() of a number, as the f-strings of the answers apply it: an int is   *)
(* its decimal numeral; a float is the shortest decimal that reads back as  *)
(* the same double, with an exponent when it is below 0.0001 (floats below  *)
(* 2^31).                                                                   *)

DecimalChunk == 10000

Digits4(v) == <<v \div 1000, (v \div 100) % 10, (v \div 10) % 10, v % 10>>

RECURSIVE FracDigits(_, _)
\* the first 4 * steps decimal digits of 0.frac
FracDigits(frac, steps) ==
    IF steps = 0 THEN <<>>
    ELSE LET p == MulAcc(frac, DecimalChunk, 0)
         IN  Digits4(p.carry) \o FracDigits(TrimZeros(p.bits), steps - 1)

\* all the decimal digits of 0.frac (a fraction of k bits has k decimal digits)
DecimalOf(frac) == FracDigits(frac, (Len(frac) + 3) \div 4)

DigitAt(ds, i) == IF i <= Len(ds) THEN ds[i] ELSE 0

\* 0.A < 0.B for digit sequences
LexLess(A, B) ==
    LET n    == IF Len(A) > Len(B) THEN Len(A) ELSE Len(B)
        diff == {i \in 1..n : DigitAt(A, i) # DigitAt(B, i)}
    IN  /\ diff # {}
        /\ LET m == CHOOSE i \in diff : \A j \in diff : i <= j
           IN  DigitAt(A, m) < DigitAt(B, m)

\* the digits of what 0.ds exceeds its first f digits by
TailDigits(ds, f) == [i \in 1..Len(ds) |-> IF i <= f THEN 0 ELSE ds[i]]

\* the digits of what 0.ds lacks to the next decimal of f digits (tail not zero)
ComplementDigits(ds, f) ==
    LET nz   == {i \in (f + 1)..Len(ds) : ds[i] # 0}
        last == CHOOSE i \in nz : \A j \in nz : j <= i
    IN  [i \in 1..Len(ds) |-> IF i <= f THEN 0
                              ELSE IF i < last THEN 9 - ds[i]
                              ELSE IF i = last THEN 10 - ds[i]
                              ELSE 0]

\* the decimal digits ds + 1 in the last place
AddOneDecimal(ds) ==
    LET low == {i \in DOMAIN ds : ds[i] # 9}
    IN  IF low = {} THEN [carry |-> 1, digits |-> [i \in DOMAIN ds |-> 0]]
        ELSE LET j == CHOOSE i \in low : \A q \in low : q <= i
             IN  [carry |-> 0,
                  digits |-> [i \in DOMAIN ds |-> IF i < j THEN ds[i]
                                                  ELSE IF i = j THEN ds[i] + 1 ELSE 0]]

RECURSIVE DigitsText(_)
DigitsText(ds) ==
    IF Len(ds) = 0 THEN ""
    ELSE IF Len(ds) = 1 THEN ToString(ds[1])
    ELSE LET h == Len(ds) \div 2
         IN  DigitsText(SubSeq(ds, 1, h)) \o DigitsText(SubSeq(ds, h + 1, Len(ds)))

\* the exponent of the last place of the mantissa of d, as a count of bits
\* after the binary point
UlpBits(d) ==
    LET ones == {i \in DOMAIN d.frac : d.frac[i] = 1}
        lead == IF ones = {} THEN 0 ELSE (CHOOSE i \in ones : \A j \in ones : i <= j) - 1
    IN  IF d.int > 0 THEN MantissaBits - BitLen(d.int) ELSE lead + MantissaBits

\* 0.ds cut to f digits reads back as the same double
CutReadsBack(ds, half, f) ==
    \/ \A i \in (f + 1)..Len(ds) : ds[i] = 0
    \/ LexLess(TailDigits(ds, f), half)

\* 0.ds raised to the next decimal of f digits reads back as the same double
RaisedReadsBack(ds, half, f) ==
    /\ \E i \in (f + 1)..Len(ds) : ds[i] # 0
    /\ LexLess(ComplementDigits(ds, f), half)

\* the least number of decimals that reads back as the same double
ShortestDecimals(ds, half) ==
    LET fs == {f \in 0..Len(ds) : CutReadsBack(ds, half, f) \/ RaisedReadsBack(ds, half, f)}
    IN  CHOOSE g \in fs : \A q \in fs : g <= q

\* of the cut and the raised decimal, the raised one is the nearer
RoundsUp(ds, half, f) ==
    /\ RaisedReadsBack(ds, half, f)
    /\ \/ ~CutReadsBack(ds, half, f)
       \/ LexLess(ComplementDigits(ds, f), TailDigits(ds, f))

\* how many zeros the decimals begin with
LeadingZeros(dec) ==
    LET nz == {i \in DOMAIN dec : dec[i] # 0}
    IN  IF nz = {} THEN 0 ELSE (CHOOSE i \in nz : \A j \in nz : i <= j) - 1

\* the numeral: with an exponent when the value is below 0.0001
FloatNumeral(sign, int, dec, z) ==
    IF int = 0 /\ z >= 4
    THEN sign \o ToString(dec[z + 1])
              \o (IF z + 1 < Len(dec) THEN "." \o DigitsText(SubSeq(dec, z + 2, Len(dec))) ELSE "")
              \o "e-" \o (IF z + 1 < 10 THEN "0" ELSE "") \o ToString(z + 1)
    ELSE sign \o ToString(int) \o "." \o (IF Len(dec) = 0 THEN "0" ELSE DigitsText(dec))

FloatRounded(sign, int, dec) == FloatNumeral(sign, int, dec, LeadingZeros(dec))

FloatCut(d, cut, up, inc) ==
    FloatRounded(IF d.neg THEN "-" ELSE "",
                 IF up THEN d.int + inc.carry ELSE d.int,
                 IF up THEN inc.digits ELSE cut)

FloatShortest(d, ds, half, f) ==
    FloatCut(d, SubSeq(ds, 1, f), RoundsUp(ds, half, f), AddOneDecimal(SubSeq(ds, 1, f)))

FloatDecimal(d, ds, half) == FloatShortest(d, ds, half, ShortestDecimals(ds, half))

\* repr(float)
FloatText(d) == FloatDecimal(d, DecimalOf(d.frac), DecimalOf(Zeros(UlpBits(d)) \o <<1>>))

\* str(number)
NumberText(number) ==
    IF number.type = "int" THEN ToString(number.int) ELSE FloatText(number.float)

-----------------------------------------------------------------------------
(* llm_service.py : the fallback solver of LLMService.  An answer is kept   *)
(* as the template the code fills and the values it fills it with.          *)

DigitString == "0123456789"

DigitVal(c) == (CHOOSE j \in 1..10 : CharAt(DigitString, j) = c) - 1

RECURSIVE ParseDigits(_)
\* int() of a run of digits
ParseDigits(s) ==
    IF Len(s) = 0 THEN 0
    ELSE 10 * ParseDigits(SubSeq(s, 1, Len(s) - 1)) + DigitVal(CharAt(s, Len(s)))

RECURSIVE Without(_, _)
\* s.replace(c, '') for a character c
Without(s, c) ==
    IF Len(s) = 0 THEN ""
    ELSE IF Len(s) = 1 THEN (IF s = c THEN "" ELSE s)
    ELSE LET h == Len(s) \div 2
         IN  Without(SubSeq(s, 1, h), c) \o Without(SubSeq(s, h + 1, Len(s)), c)

\* the end of the longest run of characters of the set that starts after i
Run(set, s, i) == RunEnd(s, One(set), i + 1, Len(s))

\* sys.int_info.default_max_str_digits: int(s) raises ValueError for more digits
int_max_str_digits == 4300

\* int(s) accepts a decimal literal: optional sign, digits, single underscores
\* between digits, whitespace around
DecimalBody(body) ==
    /\ Len(body) >= 1
    /\ Len(Without(body, "_")) <= int_max_str_digits
    /\ \A i \in 1..Len(body) : CharAt(body, i) \in Digits \cup {"_"}
    /\ CharAt(body, 1) # "_" /\ CharAt(body, Len(body)) # "_"
    /\ ~Contains(body, "__")

SignedLiteral(negative, body, ok) ==
    [ok |-> ok,
     value |-> IF ~ok THEN 0
               ELSE IF negative THEN -ParseDigits(Without(body, "_"))
               ELSE ParseDigits(Without(body, "_"))]

StrippedLiteral(t, sign) ==
    SignedLiteral(sign /\ CharAt(t, 1) = "-", IF sign THEN Slice(t, 2, Len(t)) ELSE t,
                  DecimalBody(IF sign THEN Slice(t, 2, Len(t)) ELSE t))

IntLiteralOf(t) == StrippedLiteral(t, Len(t) >= 1 /\ CharAt(t, 1) \in {"+", "-"})

IntLiteral(s) == IntLiteralOf(Strip(s))

PyInt(n)   == [type |-> "int", int |-> n]
PyFloat(d) == [type |-> "float", float |-> d]

Template(kind, question) == [kind |-> kind, question |-> question]

_solve_derivative_comprehensive(question) == Template("derivative", question)
_solve_integral_comprehensive(question)   == Template("integral", question)
_solve_geometry_comprehensive(question)   == Template("geometry", question)
_solve_percentage_comprehensive(question) == Template("percentage", question)
_solve_general_arithmetic(question)       == Template("general_arithmetic", question)
_solve_general_math_comprehensive(question) == Template("general_math", question)

_is_simple_arithmetic(question) == Search(PureArithmeticPattern, Strip(question))

\* re.search(r'(\d+)\s*([+\-*/×÷])\s*(\d+)', s): the groups of the leftmost
\* match.  Every quantifier is followed by a character outside its class,
\* so the greedy runs are the only way to match from a given start.
ArithmeticAt(s, i) ==
    LET e1 == Run(Digits, s, i)
        e2 == Run(Spaces, s, e1)
        e3 == Run(Spaces, s, e2 + 1)
        e4 == Run(Digits, s, e3)
    IN  [ok   |-> e1 > i /\ e2 < Len(s) /\ CharAt(s, e2 + 1) \in ArithOps /\ e4 > e3,
         num1 |-> Slice(s, i + 1, e1),
         operator |-> CharAt(s, e2 + 1),
         num2 |-> Slice(s, e3 + 1, e4)]

ArithmeticMatch(s) ==
    LET starts == {i \in 0..(Len(s) - 1) : ArithmeticAt(s, i).ok}
    IN  IF starts = {} THEN [ok |-> FALSE, num1 |-> "", operator |-> "", num2 |-> ""]
        ELSE ArithmeticAt(s, CHOOSE i \in starts : \A j \in starts : i <= j)

\* op_map
MapOperator(operator) ==
    CASE operator = "×" -> "*"
      [] operator = "÷" -> "/"
      [] OTHER          -> operator

ArithmeticSolved(question, num1, operator, num2, result, operation) ==
    [kind |-> "arithmetic", question |-> question, num1 |-> num1,
     operator |-> operator, num2 |-> num2, result |-> result,
     operation |-> operation]

\* the operation applied to the operands
Calculate(question, num1, operator, num2) ==
    CASE operator = "+" ->
            ArithmeticSolved(question, num1, operator, num2, PyInt(num1 + num2), "addition")
      [] operator = "-" ->
            ArithmeticSolved(question, num1, operator, num2, PyInt(num1 - num2), "subtraction")
      [] operator = "*" ->
            ArithmeticSolved(question, num1, operator, num2, PyInt(num1 * num2),
                             "multiplication")
      [] operator = "/" ->
            IF num2 = 0 THEN Template("division_by_zero", question)
            ELSE ArithmeticSolved(question, num1, operator, num2,
                                  PyFloat(TrueDiv(num1, num2)), "division")
      [] OTHER -> [kind |-> "unsupported_operation", question |-> question,
                   operator |-> operator]

\* the call ends with an exception instead of an answer
Raised(exception, question) ==
    [kind |-> "raised", question |-> question, exception |-> exception]

\* the groups of the match converted; int(num1) and int(num2) stand before
\* the try block
ArithmeticParsed(question, match) ==
    IF ~match.ok THEN Template("unparsed_arithmetic", question)
    ELSE IF Len(match.num1) > int_max_str_digits \/ Len(match.num2) > int_max_str_digits
    THEN Raised("ValueError", question)
    ELSE Calculate(question, ParseDigits(match.num1), MapOperator(match.operator),
                   ParseDigits(match.num2))

_solve_arithmetic_comprehensive(question) ==
    ArithmeticParsed(question, ArithmeticMatch(Strip(question)))

\* re.search(r'([^=]+)=([^=]+)', s): the leftmost "=" that has a character
\* other than "=" on both sides; the groups are the runs without "=" around it
EquationMatch(s) ==
    LET n   == Len(s)
        eqs == {p \in 2..(n - 1) : /\ CharAt(s, p) = "="
                                   /\ CharAt(s, p - 1) # "="
                                   /\ CharAt(s, p + 1) # "="}
    IN  IF eqs = {} THEN [ok |-> FALSE, left |-> "", right |-> ""]
        ELSE LET p  == CHOOSE q \in eqs : \A r \in eqs : q <= r
                 before == {q \in 1..(p - 1) : CharAt(s, q) = "="}
                 lo == IF before = {} THEN 1
                       ELSE 1 + CHOOSE q \in before : \A r \in before : r <= q
                 hi == RunEnd(s, NCls({"="}, 1, 1), p + 1, n)
             IN  [ok |-> TRUE, left |-> Slice(s, lo, p - 1), right |-> Slice(s, p + 1, hi)]

\* re.match(r'^\s*(\d*)\s*x\s*([+-])\s*(\d+)\s*$', t)
LinearMatch(t) ==
    LET i0 == Run(Spaces, t, 0)
        i1 == Run(Digits, t, i0)
        i2 == Run(Spaces, t, i1)
        i3 == Run(Spaces, t, i2 + 1)
        i4 == Run(Spaces, t, i3 + 1)
        i5 == Run(Digits, t, i4)
        i6 == Run(Spaces, t, i5)
    IN  [ok |-> /\ i2 < Len(t) /\ CharAt(t, i2 + 1) = "x"
                /\ i3 < Len(t) /\ CharAt(t, i3 + 1) \in {"+", "-"}
                /\ i5 > i4
                /\ i6 = Len(t),
         coeff_str    |-> Slice(t, i0 + 1, i1),
         operator     |-> CharAt(t, i3 + 1),
         constant_str |-> Slice(t, i4 + 1, i5)]

GenericEquation(left_side, right_side, question) ==
    [kind |-> "generic_equation", question |-> question,
     left_side |-> left_side, right_side |-> right_side]

\* the answer for coeff * x + constant = right_value and its solution
LinearSolved(left_side, right_side, question, coeff, constant, right_value, solution) ==
    [kind |-> "linear_equation", question |-> question,
     left_side |-> left_side, right_side |-> right_side,
     coeff |-> coeff, constant |-> constant, right_value |-> right_value,
     step1_result |-> right_value - constant, solution |-> PyFloat(solution),
     check |-> PyFloat(AddInt(MulInt(coeff, solution), constant))]

\* the steps taken once the numbers are read; ok is whether they could be read
LinearSteps(left_side, right_side, question, ok, coeff, constant, right_value) ==
    IF ok /\ coeff # 0
    THEN LinearSolved(left_side, right_side, question, coeff, constant, right_value,
                      TrueDiv(right_value - constant, coeff))
    ELSE GenericEquation(left_side, right_side, question)

\* the numbers read from the groups of the pattern and from the right side
LinearParsed(left_side, right_side, question, pattern, right) ==
    LinearSteps(left_side, right_side, question, pattern.ok /\ right.ok,
                IF pattern.coeff_str # "" THEN ParseDigits(pattern.coeff_str) ELSE 1,
                IF pattern.operator = "-" THEN -ParseDigits(pattern.constant_str)
                ELSE ParseDigits(pattern.constant_str),
                right.value)

_solve_linear_equation_pattern(left_side, right_side, question) ==
    LinearParsed(left_side, right_side, question, LinearMatch(Without(left_side, " ")),
                 IntLiteral(right_side))

\* the answer written out in the source for "3x + 7 = 10"
CommonEquation ==
    [kind |-> "common_equation", question |-> "3x + 7 = 10",
     left_side |-> "3x + 7", right_side |-> "10",
     coeff |-> 3, constant |-> 7, right_value |-> 10, step1_result |-> 3,
     solution |-> PyInt(1), check |-> PyInt(10)]

\* the sides of the equation, when the question has one
EquationParsed(question, equation_match) ==
    IF ~equation_match.ok THEN _solve_general_math_comprehensive(question)
    ELSE _solve_linear_equation_pattern(Strip(equation_match.left),
                                        Strip(equation_match.right), question)

_solve_equation_comprehensive(question) ==
    IF Contains(question, "3x + 7 = 10") \/ Contains(question, "3x+7=10")
    THEN CommonEquation
    ELSE EquationParsed(question, EquationMatch(question))

ContainsAny(s, words) == \E w \in words : Contains(s, w)

GeometryWords == {"area", "volume", "circumference", "perimeter", "circle",
                  "triangle", "rectangle"}
OperationWords == {"add", "subtract", "multiply", "divide", "plus", "minus", "times"}

_comprehensive_fallback_solution(question) ==
    LET question_lower == LowerStr(question)
    IN  IF Contains(question, "=") THEN _solve_equation_comprehensive(question)
        ELSE IF _is_simple_arithmetic(question)
             THEN _solve_arithmetic_comprehensive(question)
        ELSE IF ContainsAny(question_lower, {"derivative", "differentiate"})
             THEN _solve_derivative_comprehensive(question)
        ELSE IF ContainsAny(question_lower, {"integral", "integrate"})
             THEN _solve_integral_comprehensive(question)
        ELSE IF ContainsAny(question_lower, GeometryWords)
             THEN _solve_geometry_comprehensive(question)
        ELSE IF Contains(question, "%") \/ Contains(question_lower, "percent")
             THEN _solve_percentage_comprehensive(question)
        ELSE IF ContainsAny(question, ArithOps) \/ ContainsAny(question_lower, OperationWords)
             THEN _solve_general_arithmetic(question)
        ELSE _solve_general_math_comprehensive(question)

-----------------------------------------------------------------------------
(* llm_service.py : the texts of the answers.  The characters of the source *)
(* outside the character set of the model are written "?".                  *)

\* explanation, per operation
Explanation(a) ==
    CASE a.operation = "addition" ->
            "Add " \o ToString(a.num1) \o " and " \o ToString(a.num2)
      [] a.operation = "subtraction" ->
            "Subtract " \o ToString(a.num2) \o " from " \o ToString(a.num1)
      [] a.operation = "multiplication" ->
            "Multiply " \o ToString(a.num1) \o " by " \o ToString(a.num2)
      [] a.operation = "division" ->
            "Divide " \o ToString(a.num1) \o " by " \o ToString(a.num2)

\* the text _solve_derivative_comprehensive returns
DerivativeText(question) ==
    "## Step-by-Step Solution for: " \o question \o "\n\n" \o
    "**Problem Type:** Differentiation\n\n" \o
    "**Step 1:** Identify the function\n" \o
    "Extract the function to be differentiated from the question.\n\n" \o
    "**Step 2:** Determine the appropriate rule\n" \o
    "Common differentiation rules:\n" \o
    "- Power rule: d/dx(x^n) = n·x^(n-1)\n" \o
    "- Constant rule: d/dx(c) = 0\n" \o
    "- Sum rule: d/dx(f + g) = f' + g'\n" \o
    "- Product rule: d/dx(fg) = f'g + fg'\n" \o
    "- Chain rule: d/dx(f(g(x))) = f'(g(x))·g'(x)\n\n" \o
    "**Step 3:** Apply the rule step by step\n" \o
    "Work through the differentiation systematically.\n\n" \o
    "**Step 4:** Simplify the result\n" \o
    "Combine like terms and write in standard form.\n\n" \o
    "**Example:** For f(x) = x^2:\n" \o
    "Using the power rule: d/dx(x^2) = 2x^(2-1) = 2x"

\* the text _solve_integral_comprehensive returns
IntegralText(question) ==
    "## Step-by-Step Solution for: " \o question \o "\n\n" \o
    "**Problem Type:** Integration\n\n" \o
    "**Step 1:** Identify the integrand\n" \o
    "Extract the function to be integrated.\n\n" \o
    "**Step 2:** Choose the integration method\n" \o
    "Common integration techniques:\n" \o
    "- Power rule: ?x^n dx = x^(n+1)/(n+1) + C (n ? -1)\n" \o
    "- Substitution method\n" \o
    "- Integration by parts: ?u dv = uv - ?v du\n\n" \o
    "**Step 3:** Apply the method\n" \o
    "Work through the integration step by step.\n\n" \o
    "**Step 4:** Add the constant of integration\n" \o
    "For indefinite integrals, always add + C.\n\n" \o
    "**Example:** For ?x^2 dx:\n" \o
    "Using the power rule: ?x^2 dx = x^3/3 + C"

\* the text _solve_geometry_comprehensive returns
GeometryText(question) ==
    "## Step-by-Step Solution for: " \o question \o "\n\n" \o
    "**Problem Type:** Geometry\n\n" \o
    "**Step 1:** Identify the geometric shape and what's being asked\n" \o
    "Determine the shape (circle, triangle, rectangle, etc.) and the required measurement.\n\n" \o
    "**Step 2:** Recall the relevant formula\n" \o
    "Common formulas:\n" \o
    "- Circle: Area = πr², Circumference = 2πr\n" \o
    "- Rectangle: Area = length × width, Perimeter = 2(length + width)\n" \o
    "- Triangle: Area = ½ × base × height\n" \o
    "- Square: Area = side², Perimeter = 4 × side\n\n" \o
    "**Step 3:** Substitute the known values\n" \o
    "Plug the given measurements into the appropriate formula.\n\n" \o
    "**Step 4:** Calculate the result\n" \o
    "Perform the arithmetic to get the final answer.\n\n" \o
    "**Step 5:** Include appropriate units\n" \o
    "Make sure your answer has the correct units (square units for area, linear units for perimeter).\n\n" \o
    "**Example:** For a circle with radius 5:\n" \o
    "Area = πr² = π(5)² = 25π ? 78.54 square units"

\* the text _solve_percentage_comprehensive returns
PercentageText(question) ==
    "## Step-by-Step Solution for: " \o question \o "\n\n" \o
    "**Problem Type:** Percentage Calculation\n\n" \o
    "**Step 1:** Identify what type of percentage problem this is\n" \o
    "- Finding a percentage of a number: What is 25% of 80?\n" \o
    "- Finding what percentage one number is of another: What % is 15 of 60?\n" \o
    "- Finding the whole when given a part and percentage: 20 is 25% of what number?\n\n" \o
    "**Step 2:** Choose the appropriate formula\n" \o
    "- Part = Whole × (Percentage ÷ 100)\n" \o
    "- Percentage = (Part ÷ Whole) × 100\n" \o
    "- Whole = Part ÷ (Percentage ÷ 100)\n\n" \o
    "**Step 3:** Substitute the known values\n" \o
    "Replace the variables with the given numbers.\n\n" \o
    "**Step 4:** Calculate step by step\n" \o
    "Perform the arithmetic operations in order.\n\n" \o
    "**Step 5:** Verify and format the answer\n" \o
    "Check if the result makes sense and include the % symbol if appropriate.\n\n" \o
    "**Example:** To find 25% of 80:\n" \o
    "25% of 80 = 80 × (25 ÷ 100) = 80 × 0.25 = 20"

\* the text _solve_general_arithmetic returns
GeneralArithmeticText(question) ==
    "## Step-by-Step Solution for: " \o question \o "\n\n" \o
    "**Problem Type:** Arithmetic Calculation\n\n" \o
    "**Step 1:** Identify the numbers and operations\n" \o
    "Look for numerical values and mathematical operations in the problem.\n\n" \o
    "**Step 2:** Determine the order of operations\n" \o
    "Follow PEMDAS/BODMAS:\n" \o
    "- Parentheses/Brackets first\n" \o
    "- Exponents/Orders\n" \o
    "- Multiplication and Division (left to right)\n" \o
    "- Addition and Subtraction (left to right)\n\n" \o
    "**Step 3:** Perform the calculations step by step\n" \o
    "Work through each operation systematically.\n\n" \o
    "**Step 4:** Check your work\n" \o
    "Verify that your calculations are correct.\n\n" \o
    "**Example approach:** For \"15 + 3 × 4\":\n" \o
    "First: 3 × 4 = 12\n" \o
    "Then: 15 + 12 = 27"

\* the text _solve_general_math_comprehensive returns
GeneralMathText(question) ==
    "## Step-by-Step Mathematical Analysis for: " \o question \o "\n\n" \o
    "**Problem-Solving Strategy:**\n\n" \o
    "**Step 1: Understand the Problem**\n" \o
    "- Read the question carefully\n" \o
    "- Identify what is being asked\n" \o
    "- Note any given information or constraints\n\n" \o
    "**Step 2: Identify Mathematical Concepts**\n" \o
    "- Determine which area of mathematics applies\n" \o
    "- Recall relevant formulas, theorems, or principles\n" \o
    "- Consider what tools or methods are needed\n\n" \o
    "**Step 3: Plan Your Approach**\n" \o
    "- Break the problem into smaller, manageable parts\n" \o
    "- Decide on the sequence of steps to follow\n" \o
    "- Consider if there are multiple solution methods\n\n" \o
    "**Step 4: Execute the Solution**\n" \o
    "- Work through each step systematically\n" \o
    "- Show all calculations and reasoning\n" \o
    "- Keep track of units and significant figures\n\n" \o
    "**Step 5: Check and Verify**\n" \o
    "- Review your work for errors\n" \o
    "- Verify that your answer makes sense\n" \o
    "- Consider if there are alternative approaches\n\n" \o
    "**Step 6: Communicate the Result**\n" \o
    "- State your final answer clearly\n" \o
    "- Include appropriate units or context\n" \o
    "- Explain what the result means if applicable\n\n" \o
    "This systematic approach ensures thorough problem-solving for any mathematical question."

\* the text written out for "3x + 7 = 10"
CommonEquationText ==
    "## Step-by-Step Solution for: 3x + 7 = 10\n\n" \o
    "**Given equation:** 3x + 7 = 10\n\n" \o
    "**Step 1:** Subtract 7 from both sides\n" \o
    "3x + 7 - 7 = 10 - 7\n" \o
    "3x = 3\n\n" \o
    "**Step 2:** Divide both sides by 3\n" \o
    "3x ÷ 3 = 3 ÷ 3\n" \o
    "x = 1\n\n" \o
    "**Step 3:** Verify the solution\n" \o
    "Substitute x = 1 back into the original equation:\n" \o
    "3(1) + 7 = 3 + 7 = 10 ?\n\n" \o
    "**Answer:** x = 1"

\* the text _solve_linear_equation_pattern returns when no pattern matches
GenericEquationText(a) ==
    "## Step-by-Step Solution for: " \o a.question \o "\n\n" \o
    "**Given equation:** " \o a.left_side \o " = " \o a.right_side \o "\n\n" \o
    "**Step 1:** Identify the equation structure\n" \o
    "This is a linear equation in one variable.\n\n" \o
    "**Step 2:** Apply algebraic principles\n" \o
    "- Move all terms with the variable to one side\n" \o
    "- Move all constants to the other side\n" \o
    "- Use inverse operations (addition/subtraction, then multiplication/division)\n\n" \o
    "**Step 3:** Solve systematically\n" \o
    "- Combine like terms\n" \o
    "- Isolate the variable\n" \o
    "- Simplify the result\n\n" \o
    "**Step 4:** Verify your answer\n" \o
    "Substitute your solution back into the original equation to check.\n\n" \o
    "**General approach:** For equations like ax + b = c, subtract b from both sides, then divide by a."

\* the text _solve_linear_equation_pattern returns for a matched equation, the
\* solution and the check as they are written
LinearEquationLines(a, solution, check) ==
    "## Step-by-Step Solution for: " \o a.question \o "\n\n" \o
    "**Given equation:** " \o a.left_side \o " = " \o a.right_side \o "\n\n" \o
    "**Step 1:** Isolate the variable term\n" \o
    "Move the constant to the right side:\n" \o
    ToString(a.coeff) \o "x = " \o a.right_side \o " - (" \o ToString(a.constant) \o ")\n" \o
    ToString(a.coeff) \o "x = " \o ToString(a.step1_result) \o "\n\n" \o
    "**Step 2:** Solve for x\n" \o
    "Divide both sides by " \o ToString(a.coeff) \o ":\n" \o
    "x = " \o ToString(a.step1_result) \o " ÷ " \o ToString(a.coeff) \o "\n" \o
    "x = " \o solution \o "\n\n" \o
    "**Step 3:** Verify the solution\n" \o
    "Substitute x = " \o solution \o " back into the original equation:\n" \o
    ToString(a.coeff) \o "(" \o solution \o ") + (" \o ToString(a.constant) \o
    ") = " \o check \o "\n" \o
    check \o " = " \o ToString(a.right_value) \o " ?\n\n" \o
    "**Answer:** x = " \o solution

LinearEquationText(a) ==
    LinearEquationLines(a, NumberText(a.solution), NumberText(a.check))

\* _solve_arithmetic_comprehensive, line 338
DivisionByZeroText(a) ==
    "## Solution for: " \o a.question \o "\n\n" \o
    "**Error:** Division by zero is undefined in mathematics.\n" \o
    "You cannot divide any number by zero."

\* _solve_arithmetic_comprehensive, line 348
ArithmeticLines(a, result) ==
    "## Step-by-Step Solution for: " \o a.question \o "\n\n" \o
    "**Problem:** " \o ToString(a.num1) \o " " \o a.operator \o " " \o ToString(a.num2) \o
    "\n\n" \o
    "**Step 1:** Identify the operation\n" \o
    "This is a " \o a.operation \o " problem.\n\n" \o
    "**Step 2:** Apply the operation\n" \o
    Explanation(a) \o ":\n" \o
    ToString(a.num1) \o " " \o a.operator \o " " \o ToString(a.num2) \o " = " \o
    result \o "\n\n" \o
    "**Step 3:** Verify the result\n" \o
    "The calculation is correct: " \o result \o "\n\n" \o
    "**Answer:** " \o result

ArithmeticText(a) == ArithmeticLines(a, NumberText(a.result))

\* _solve_arithmetic_comprehensive, line 367
UnparsedArithmeticText(a) ==
    "## Solution for: " \o a.question \o "\n\n" \o
    "Could not parse the arithmetic expression."

\* _solve_arithmetic_comprehensive, line 346
UnsupportedOperationText(a) ==
    "## Solution for: " \o a.question \o "\n\nUnsupported operation: " \o a.operator

\* an answer of the Gemini API, as _format_gemini_response returns it
GeminiAnswer(question, response_text) ==
    [kind |-> "gemini", question |-> question, response_text |-> response_text]

_format_gemini_response(response_text, question) ==
    "## Step-by-Step Solution for: " \o question \o "\n\n" \o
    "*Generated using Gemini AI*\n\n" \o
    response_text

\* the string an answer is
AnswerText(a) ==
    CASE a.kind = "gemini"              -> _format_gemini_response(a.response_text, a.question)
      [] a.kind = "common_equation"     -> CommonEquationText
      [] a.kind = "linear_equation"     -> LinearEquationText(a)
      [] a.kind = "generic_equation"    -> GenericEquationText(a)
      [] a.kind = "arithmetic"          -> ArithmeticText(a)
      [] a.kind = "division_by_zero"    -> DivisionByZeroText(a)
      [] a.kind = "unsupported_operation" -> UnsupportedOperationText(a)
      [] a.kind = "unparsed_arithmetic" -> UnparsedArithmeticText(a)
      [] a.kind = "derivative"          -> DerivativeText(a.question)
      [] a.kind = "integral"            -> IntegralText(a.question)
      [] a.kind = "geometry"            -> GeometryText(a.question)
      [] a.kind = "percentage"          -> PercentageText(a.question)
      [] a.kind = "general_arithmetic"  -> GeneralArithmeticText(a.question)
      [] a.kind = "general_math"        -> GeneralMathText(a.question)
      [] OTHER                          -> ""

-----------------------------------------------------------------------------
(* Optional values of Python: None is the empty set, a value v is {v}.      *)

None == {}
Some(v) == {v}

\* bool(v) of an Optional[str]
Truthy(opt) == opt # None /\ opt # Some("")

-----------------------------------------------------------------------------
(* knowledge_base.py, google_search.py, web_search.py, llm_service.py : the *)
(* services the /query route calls.  What the outside world answers (the    *)
(* vector store, the search API, the Gemini API) is an outcome the caller   *)
(* of these operators draws.                                                *)

KbError        == [kind |-> "error", avg_distance |-> 0]
KbEmpty        == [kind |-> "empty", avg_distance |-> 0]
KbDocuments(d) == [kind |-> "documents", avg_distance |-> d]

\* the confidence of the QueryResult of KnowledgeBase.query, in hundredths,
\* for an average distance in hundredths
KnowledgeBaseConfidence(outcome) ==
    CASE outcome.kind = "error" -> 0
      [] outcome.kind = "empty" -> 10
      [] outcome.kind = "documents" -> Min(Max(10, 100 - outcome.avg_distance), 85)

max_results == 5

GoogleSearchResult(i) ==
    [title        |-> "Result " \o ToString(i),
     snippet      |-> "Snippet " \o ToString(i),
     link         |-> "https://example.org/" \o ToString(i),
     display_link |-> "example.org"]

NoSearchData == [present |-> FALSE, results |-> <<>>]

\* GoogleSearchService.search_math_query: None for a disabled service, a
\* timeout, a status other than 200 and any exception; otherwise the items
\* of the answer, as many as the API returned
search_math_query(outcome) ==
    IF outcome.kind = "ok"
    THEN [present |-> TRUE,
          results |-> [i \in 1..Min(outcome.items, max_results) |-> GoogleSearchResult(i)]]
    ELSE NoSearchData

\* google_search_data and google_search_data.results
HasResults(data) == data.present /\ Len(data.results) > 0

\* seq[:n]
Take(seq, n) == SubSeq(seq, 1, Min(n, Len(seq)))

extract_references(search_response) ==
    IF ~HasResults(search_response) THEN <<>>
    ELSE LET top == Take(search_response.results, 3)
         IN  [i \in DOMAIN top |-> [title   |-> top[i].title,
                                    url     |-> top[i].link,
                                    source  |-> "Google Search",
                                    snippet |-> top[i].snippet]]

RECURSIVE Replace(_, _, _)
\* str.replace(old, new) for one character old
Replace(s, old, new) ==
    IF Len(s) = 0 THEN ""
    ELSE IF Len(s) = 1 THEN (IF s = old THEN new ELSE s)
    ELSE LET h == Len(s) \div 2
         IN  Replace(SubSeq(s, 1, h), old, new) \o Replace(SubSeq(s, h + 1, Len(s)), old, new)

Reference(title, url) == [title |-> title, url |-> url]

\* WebSearchAgent._generate_dynamic_references(query, [])
_generate_dynamic_references(query) ==
    LET query_lower == LowerStr(query)
        plus        == Replace(query, " ", "+")
        wolfram     == "https://www.wolframalpha.com/input/?i="
    IN  IF Contains(query_lower, "solve") /\ Contains(query, "=")
        THEN << Reference("Equation Solver: " \o query, wolfram \o Replace(plus, "=", "%3D")),
                Reference("Algebra Methods and Techniques",
                    "https://www.khanacademy.org/math/algebra/x2f8bb11595b61c86:solve-equations"),
                Reference("Equation Verification Calculator", "https://www.mathway.com/Algebra") >>
        ELSE IF Contains(query_lower, "derivative")
        THEN << Reference("Derivative Calculator: " \o query, wolfram \o "derivative+" \o plus),
                Reference("Differentiation Rules Reference",
                    "https://www.khanacademy.org/math/calculus-1/cs1-derivatives-definition-and-basic-rules"),
                Reference("Calculus Problem Solver", "https://www.mathway.com/Calculus") >>
        ELSE IF Contains(query_lower, "integral") \/ Contains(query_lower, "integrate")
        THEN << Reference("Integration Calculator: " \o query, wolfram \o "integrate+" \o plus),
                Reference("Integration Techniques Guide",
                    "https://www.khanacademy.org/math/calculus-2/cs2-integration-techniques"),
                Reference("Integral Table and Reference", "https://www.integral-table.com/") >>
        ELSE IF ContainsAny(query_lower, {"area", "volume", "circumference", "perimeter"})
        THEN << Reference("Geometry Calculator: " \o query, wolfram \o plus),
                Reference("Geometry Formulas Reference", "https://www.khanacademy.org/math/geometry"),
                Reference("Interactive Geometry Tool", "https://www.geogebra.org/geometry") >>
        ELSE << Reference("Math Problem Solver: " \o query, wolfram \o plus),
                Reference("Mathematics Learning Platform", "https://www.khanacademy.org/math"),
                Reference("Step-by-Step Math Solutions", "https://www.mathway.com/") >>

\* an outcome of the Gemini API: whether a key is configured, the text of the
\* direct call, whether the SDK model exists, the text of the SDK call; an
\* empty text stands for a call that failed or answered nothing
LlmOutcome(api_key, direct, model, sdk) ==
    [api_key |-> api_key, direct |-> direct, model |-> model, sdk |-> sdk]

\* no fallback when the API gives nothing
generate_step_by_step_solution_without_fallback(question, llm) ==
    IF llm.api_key /\ llm.direct # "" THEN GeminiAnswer(question, llm.direct)
    ELSE IF llm.api_key /\ llm.model /\ llm.sdk # "" THEN GeminiAnswer(question, llm.sdk)
    ELSE Template("none", question)

\* LLMService.generate_step_by_step_solution
generate_step_by_step_solution(question, llm) ==
    IF llm.api_key /\ llm.direct # "" THEN GeminiAnswer(question, llm.direct)
    ELSE IF llm.api_key /\ llm.model /\ llm.sdk # "" THEN GeminiAnswer(question, llm.sdk)
    ELSE _comprehensive_fallback_solution(question)

-----------------------------------------------------------------------------
(* routes.py : what solve_math_problem builds                               *)

\* the threshold taken as inclusive
KbLow_inclusive(kb_confidence) == kb_confidence <= 70

\* a confidence of 0 taken as no confidence at all
KbLow_truthy(kb_confidence) == kb_confidence > 0 /\ kb_confidence < 70

\* if kb_confidence < 0.7
KbLow(kb_confidence) == kb_confidence < 70

\* f"{value:.2f}" of a value in hundredths
Fixed2(h) ==
    ToString(h \div 100) \o "." \o ToString((h % 100) \div 10) \o ToString(h % 10)

\* the generated reference put before the results of the search
Combine_generated_first(google_search_data, query) ==
    LET references == _generate_dynamic_references(query)
    IN  IF HasResults(google_search_data)
        THEN LET combined_refs == Take(references, 1)
                                      \o Take(extract_references(google_search_data), 2)
             IN  [i \in DOMAIN combined_refs |->
                     Reference(combined_refs[i].title, combined_refs[i].url)]
        ELSE references

\* STEP 4: the references of the response
Combine(google_search_data, query) ==
    LET references == _generate_dynamic_references(query)
    IN  IF HasResults(google_search_data)
        THEN LET combined_refs == Take(extract_references(google_search_data), 2)
                                      \o Take(references, 1)
             IN  [i \in DOMAIN combined_refs |->
                     Reference(combined_refs[i].title, combined_refs[i].url)]
        ELSE references

\* the web search listed before the knowledge base
ReasoningSteps_search_first(kb_confidence, google_search_data) ==
    << "Processed mathematical question through AI system" >>
    \o (IF HasResults(google_search_data)
        THEN << "Enhanced with Google search ("
                   \o ToString(Len(google_search_data.results)) \o " results)" >>
        ELSE << >>)
    \o << "Searched knowledge base (confidence: " \o Fixed2(kb_confidence) \o ")",
          "Generated comprehensive step-by-step solution",
          "Provided verification and detailed explanation",
          "Added relevant mathematical resources and references" >>

\* STEP 5
ReasoningSteps(kb_confidence, google_search_data) ==
    << "Processed mathematical question through AI system",
       "Searched knowledge base (confidence: " \o Fixed2(kb_confidence) \o ")" >>
    \o (IF HasResults(google_search_data)
        THEN << "Enhanced with Google search ("
                   \o ToString(Len(google_search_data.results)) \o " results)" >>
        ELSE << >>)
    \o << "Generated comprehensive step-by-step solution",
          "Provided verification and detailed explanation",
          "Added relevant mathematical resources and references" >>

\* used_google_search told from the search having answered
Result_searched(llm_answer, query, query_id, kb_confidence, google_search_data) ==
    LET references == Combine(google_search_data, query)
        sources    == Take(references, 3)
    IN  [answer              |-> llm_answer,
         confidence          |-> IF Contains(AnswerText(llm_answer), "Gemini AI")
                                 THEN 90 ELSE 75,
         sources             |-> [i \in DOMAIN sources |-> sources[i].title],
         query_id            |-> query_id,
         reasoning_steps     |-> ReasoningSteps(kb_confidence, google_search_data),
         used_google_search  |-> google_search_data.present,
         google_search_count |-> IF HasResults(google_search_data)
                                 THEN Len(google_search_data.results) ELSE 0,
         kb_confidence       |-> kb_confidence]

Result(llm_answer, query, query_id, kb_confidence, google_search_data) ==
    LET references == Combine(google_search_data, query)
        sources    == Take(references, 3)
    IN  [answer              |-> llm_answer,
         confidence          |-> IF Contains(AnswerText(llm_answer), "Gemini AI")
                                 THEN 90 ELSE 75,
         sources             |-> [i \in DOMAIN sources |-> sources[i].title],
         query_id            |-> query_id,
         reasoning_steps     |-> ReasoningSteps(kb_confidence, google_search_data),
         used_google_search  |-> HasResults(google_search_data),
         google_search_count |-> IF HasResults(google_search_data)
                                 THEN Len(google_search_data.results) ELSE 0,
         kb_confidence       |-> kb_confidence]

\* what OutputFilter.process says of an answer, the filtered text left out but
\* for its length
Verdict(filtered) ==
    [is_safe    |-> filtered.is_safe,
     message    |-> filtered.message,
     issues     |-> filtered.issues,
     confidence |-> filtered.confidence,
     length     |-> Len(filtered.content)]

OutputVerdict(llm_answer) == Verdict(OutputFilterProcess(AnswerText(llm_answer)))

\* the text of the answer of a response
ResponseText(llm_answer) == OutputFilterProcess(AnswerText(llm_answer)).content

HTTPException(status_code, detail) == [status_code |-> status_code, detail |-> detail]

-----------------------------------------------------------------------------
(* feedback.py, database.py : FeedbackManager and DatabaseManager.  A store *)
(* is the in-memory caches of the manager (query_logs, feedback_entries)    *)
(* and the tables of the database (db_query_logs, db_feedback), each a      *)
(* function from ids; db_initialized is DatabaseManager.initialized.  Every *)
(* call is given whether the database can be connected to (connect) and     *)
(* whether its statements succeed (execute).                                *)

Store(query_logs, feedback_entries, db_initialized, db_query_logs, db_feedback) ==
    [query_logs       |-> query_logs,
     feedback_entries |-> feedback_entries,
     db_initialized   |-> db_initialized,
     db_query_logs    |-> db_query_logs,
     db_feedback      |-> db_feedback]

EmptyStore == Store(<<>>, <<>>, FALSE, <<>>, <<>>)

QueryLog(query_id, question, answer, confidence, sources, user_id, reasoning_steps) ==
    [query_id        |-> query_id,
     question        |-> question,
     answer          |-> answer,
     confidence      |-> confidence,
     sources         |-> sources,
     user_id         |-> user_id,
     reasoning_steps |-> reasoning_steps]

FeedbackEntry(feedback_id, query_id, feedback_type, feedback_text, corrected_answer, user_id, processed) ==
    [feedback_id      |-> feedback_id,
     query_id         |-> query_id,
     feedback_type    |-> feedback_type,
     feedback_text    |-> feedback_text,
     corrected_answer |-> corrected_answer,
     user_id          |-> user_id,
     processed        |-> processed]

FeedbackProcessingResult(feedback_id, success, message, actions_taken) ==
    [feedback_id   |-> feedback_id,
     success       |-> success,
     message       |-> message,
     actions_taken |-> actions_taken]

FeedbackType == {"positive", "negative", "correction", "clarification"}

learning_enabled == TRUE

\* str(e) of the exception DatabaseManager.initialize raises
DatabaseErrorText == "unable to open database file"

\* get_database() raises: the database is not initialized and initialize() fails
GetDatabaseRaises(S, connect) == ~S.db_initialized /\ ~connect

\* the store after a get_database() that returned
Connected(S) == [S EXCEPT !.db_initialized = TRUE]

\* DatabaseManager.store_query_log: query_id is unique in the table
store_query_log(S, query_data, execute) ==
    IF execute /\ query_data.query_id \notin DOMAIN S.db_query_logs
    THEN [S EXCEPT !.db_query_logs = (query_data.query_id :> query_data) @@ @]
    ELSE S

\* DatabaseManager.store_feedback: feedback_id is unique in the table
store_feedback(S, feedback_data, execute) ==
    IF execute /\ feedback_data.feedback_id \notin DOMAIN S.db_feedback
    THEN [S EXCEPT !.db_feedback = (feedback_data.feedback_id :> feedback_data) @@ @]
    ELSE S

\* the query id left out of the selection
_fetch_query_log_from_db_any(S, query_id, execute) ==
    IF execute /\ DOMAIN S.db_query_logs # {}
    THEN Some(S.db_query_logs[CHOOSE id \in DOMAIN S.db_query_logs : TRUE])
    ELSE None

\* FeedbackManager._fetch_query_log_from_db
_fetch_query_log_from_db(S, query_id, execute) ==
    IF execute /\ query_id \in DOMAIN S.db_query_logs
    THEN Some(S.db_query_logs[query_id])
    ELSE None

\* FeedbackManager.log_query: the store it leaves and whether it raised
log_query(S, query_log, connect, execute) ==
    LET logged == [S EXCEPT !.query_logs = (query_log.query_id :> query_log) @@ @]
    IN  IF GetDatabaseRaises(logged, connect)
        THEN [store |-> logged, raised |-> TRUE]
        ELSE [store |-> store_query_log(Connected(logged), query_log, execute),
              raised |-> FALSE]

_handle_positive_feedback(feedback, query_log) ==
    IF learning_enabled
    THEN <<"Reinforced successful response pattern">>
         \o (IF Len(query_log.sources) > 0
             THEN <<"Marked " \o ToString(Len(query_log.sources)) \o " sources as reliable">>
             ELSE <<>>)
         \o <<"Updated confidence scoring for similar queries">>
    ELSE <<>>

_handle_negative_feedback(feedback, query_log) ==
    IF learning_enabled
    THEN <<"Flagged response pattern for review">>
         \o (IF Len(query_log.sources) > 0
             THEN <<"Reduced confidence in " \o ToString(Len(query_log.sources)) \o " sources">>
             ELSE <<>>)
         \o (IF query_log.confidence > 70
             THEN <<"Queued high-confidence incorrect answer for manual review">>
             ELSE <<>>)
    ELSE <<>>

_handle_correction_feedback(feedback, query_log) ==
    IF Truthy(feedback.corrected_answer) /\ learning_enabled
    THEN <<"Stored corrected answer for future reference",
           "Added correction to knowledge base">>
         \o (IF query_log.confidence > 60 /\ Len(query_log.sources) > 0
             THEN <<"Flagged original sources for accuracy review">>
             ELSE <<>>)
    ELSE <<>>

_handle_clarification_feedback(feedback, query_log) ==
    IF Truthy(feedback.feedback_text) /\ learning_enabled
    THEN <<"Analyzed clarification requirements",
           "Marked original response as potentially unclear",
           "Queued for response clarity improvement">>
    ELSE <<>>

_process_feedback_by_type(feedback, query_log) ==
    CASE feedback.feedback_type = "positive" -> _handle_positive_feedback(feedback, query_log)
      [] feedback.feedback_type = "negative" -> _handle_negative_feedback(feedback, query_log)
      [] feedback.feedback_type = "correction" ->
            _handle_correction_feedback(feedback, query_log)
      [] feedback.feedback_type = "clarification" ->
            _handle_clarification_feedback(feedback, query_log)
      [] OTHER -> <<>>

\* the result of the except clause of process_feedback
ProcessingError(feedback_id) ==
    FeedbackProcessingResult(feedback_id, FALSE,
        "Error processing feedback: " \o DatabaseErrorText, <<>>)

\* FeedbackManager.process_feedback: the store it leaves and its result
process_feedback(S, query_id, feedback_type, feedback_text, corrected_answer, user_id, feedback_id, connect, execute) ==
    IF feedback_type \notin FeedbackType
    THEN [store  |-> S,
          result |-> FeedbackProcessingResult(feedback_id, FALSE,
                         "Invalid feedback type: " \o feedback_type, <<>>)]
    ELSE
    LET cached == query_id \in DOMAIN S.query_logs
    IN  IF ~cached /\ GetDatabaseRaises(S, connect)
        THEN [store |-> S, result |-> ProcessingError(feedback_id)]
        ELSE
        LET looked == IF cached THEN S ELSE Connected(S)
            found  == IF cached THEN Some(S.query_logs[query_id])
                      ELSE _fetch_query_log_from_db(looked, query_id, execute)
        IN  IF found = None
            THEN [store  |-> looked,
                  result |-> FeedbackProcessingResult(feedback_id, FALSE,
                                 "Query " \o query_id \o " not found", <<>>)]
            ELSE
            LET query_log      == CHOOSE l \in found : TRUE
                feedback_entry == FeedbackEntry(feedback_id, query_id, feedback_type,
                                      feedback_text, corrected_answer, user_id, FALSE)
                kept           == [looked EXCEPT !.feedback_entries =
                                      (feedback_id :> feedback_entry) @@ @]
            IN  IF GetDatabaseRaises(kept, connect)
                THEN [store |-> kept, result |-> ProcessingError(feedback_id)]
                ELSE
                LET stored  == store_feedback(Connected(kept), feedback_entry, execute)
                    actions == _process_feedback_by_type(feedback_entry, query_log)
                IN  [store  |-> [stored EXCEPT !.feedback_entries[feedback_id].processed = TRUE],
                     result |-> FeedbackProcessingResult(feedback_id, TRUE,
                                    "Feedback processed successfully", actions)]

\* routes.py : submit_feedback, the body of the answer to POST /feedback for
\* the result process_feedback returned (process_feedback raises nothing)
submit_feedback(result) ==
    [message |-> "Feedback received successfully", feedback_id |-> result.feedback_id]

-----------------------------------------------------------------------------
(* State                                                                   *)

VARIABLES
    filterPc,       \* InputFilter.process: "input" before the call, "done" after it;
                    \* OutputFilter.process: "output" before it, "output_done" after it
    filterInput,    \* the text handed to the filter
    filterResult,   \* the FilterResult it returned
    solverPc,       \* the fallback solver: "input" before the call, "done" after it
    solverCase,     \* the shape of the question and the numbers written in it
    solverQuestion, \* the question handed to _comprehensive_fallback_solution
    solverAnswer,   \* the answer it returned
    pipelinePc,     \* where solve_math_problem is in the resolution of the request
    request,        \* the MathQuery
    filtered_query, \* the FilterResult of the input filter
    kb_confidence,  \* the confidence of the knowledge base, in hundredths
    google_search_data, \* what search_math_query returned
    result,         \* the result built from the answer of the LLM service
    filtered_output,\* what the output filter said of the answer
    response,       \* the MathResponse
    error,          \* the HTTPException raised to the caller
    calls,          \* the calls to the services and their returns, in order
    query_logs,     \* FeedbackManager.query_logs
    feedback_entries, \* FeedbackManager.feedback_entries
    db_initialized, \* DatabaseManager.initialized
    db_query_logs,  \* the rows of the table query_logs, by query_id
    db_feedback,    \* the rows of the table feedback, by feedback_id
    feedback_call,  \* the last call to the feedback manager and the store before it
    feedback_result,\* the FeedbackProcessingResult of the last process_feedback
    feedback_list,  \* what get_feedback_for_query returned, when it was the last call
    webPc,          \* search_and_synthesize: "called", "gathering", "returned"
    webQuery,       \* the query it was called with
    search_tasks,   \* per engine: "pending", or what its search ended with
    completed,      \* the engines in the order in which their searches ended
    search_result   \* the SearchResult returned

filterVars   == <<filterPc, filterInput, filterResult>>
solverVars   == <<solverPc, solverCase, solverQuestion, solverAnswer>>
pipelineVars == <<pipelinePc, request, filtered_query, kb_confidence, google_search_data,
                  result, filtered_output, response, error, calls>>
storeVars    == <<query_logs, feedback_entries, db_initialized, db_query_logs, db_feedback>>
feedbackVars == <<feedback_call, feedback_result, feedback_list>>
webVars      == <<webPc, webQuery, search_tasks, completed, search_result>>

vars == <<filterPc, filterInput, filterResult,
          solverPc, solverCase, solverQuestion, solverAnswer,
          pipelinePc, request, filtered_query, kb_confidence, google_search_data,
          result, filtered_output, response, error, calls,
          query_logs, feedback_entries, db_initialized, db_query_logs, db_feedback,
          feedback_call, feedback_result, feedback_list,
          webPc, webQuery, search_tasks, completed, search_result>>

NoFilterResult == FilterResult(FALSE, "", "", <<>>, 0)

NoSearchResult ==
    [answer |-> "", confidence |-> 0, sources |-> <<>>, reasoning_steps |-> <<>>,
     raw_results |-> <<>>]

\* the web search agent is not exercised
WebIdle ==
    /\ webPc = "idle"
    /\ webQuery = ""
    /\ search_tasks = <<>>
    /\ completed = <<>>
    /\ search_result = NoSearchResult

\* the filter is not exercised
FilterIdle ==
    /\ filterPc = "idle"
    /\ filterInput = ""
    /\ filterResult = NoFilterResult

Case(form, a, op, b, c) == [form |-> form, a |-> a, op |-> op, b |-> b, c |-> c]

NoCase   == Case("none", 0, "", 0, 0)
NoAnswer == Template("none", "")

\* the fallback solver is not exercised
SolverIdle ==
    /\ solverPc = "idle"
    /\ solverCase = NoCase
    /\ solverQuestion = ""
    /\ solverAnswer = NoAnswer

MathQuery(question, context, user_id) ==
    [question |-> question, context |-> context, user_id |-> user_id]

NoRequest    == MathQuery("", None, None)
NoConfidence == 0 - 1
NoResult     == [answer |-> NoAnswer, confidence |-> 0, sources |-> <<>>, query_id |-> "",
                 reasoning_steps |-> <<>>, used_google_search |-> FALSE,
                 google_search_count |-> 0, kb_confidence |-> NoConfidence]
NoVerdict    == [is_safe |-> FALSE, message |-> "", issues |-> <<>>, confidence |-> 0,
                 length |-> 0]
NoError      == HTTPException(0, "")

\* MathResponse: the answer is kept as the answer of the LLM service and the
\* length of its filtered text
MathResponse(res, verdict) ==
    [answer              |-> res.answer,
     answer_length       |-> verdict.length,
     confidence          |-> res.confidence,
     sources             |-> res.sources,
     query_id            |-> res.query_id,
     reasoning_steps     |-> res.reasoning_steps,
     used_google_search  |-> res.used_google_search,
     google_search_count |-> res.google_search_count,
     kb_confidence       |-> res.kb_confidence]

NoResponse == MathResponse(NoResult, NoVerdict)

\* no request is being resolved
PipelineIdle ==
    /\ pipelinePc = "idle"
    /\ request = NoRequest
    /\ filtered_query = NoFilterResult
    /\ kb_confidence = NoConfidence
    /\ google_search_data = NoSearchData
    /\ result = NoResult
    /\ filtered_output = NoVerdict
    /\ response = NoResponse
    /\ error = NoError
    /\ calls = <<>>

TheStore == Store(query_logs, feedback_entries, db_initialized, db_query_logs, db_feedback)

\* the store becomes S
SetStore(S) ==
    /\ query_logs' = S.query_logs
    /\ feedback_entries' = S.feedback_entries
    /\ db_initialized' = S.db_initialized
    /\ db_query_logs' = S.db_query_logs
    /\ db_feedback' = S.db_feedback

\* the store after construction: nothing cached, the database not initialized;
\* its tables empty
StoreEmpty ==
    /\ query_logs = <<>>
    /\ feedback_entries = <<>>
    /\ db_initialized = FALSE
    /\ db_query_logs = <<>>
    /\ db_feedback = <<>>

FeedbackInput(feedback_type, feedback_text, corrected_answer) ==
    [feedback_type |-> feedback_type, feedback_text |-> feedback_text,
     corrected_answer |-> corrected_answer]

Call(op, query_id, input, before) ==
    [op |-> op, query_id |-> query_id, input |-> input, before |-> before]

NoCall == Call("none", "", FeedbackInput("", None, None), EmptyStore)

NoFeedbackResult == FeedbackProcessingResult("", FALSE, "", <<>>)

\* the feedback manager has not been called
FeedbackIdle ==
    /\ feedback_call = NoCall
    /\ feedback_result = NoFeedbackResult
    /\ feedback_list = <<>>

-----------------------------------------------------------------------------
(* Inputs of the input filter                                              *)

MaxShortLen == 3
PadSlack    == 6

RECURSIVE Repeat(_, _)
\* c * n
Repeat(c, n) ==
    IF n <= 0 THEN ""
    ELSE IF n = 1 THEN c
    ELSE LET h == Repeat(c, n \div 2)
         IN  h \o h \o (IF n % 2 = 1 THEN c ELSE "")

FilterAlphabet == {" ", "h", "i", "2", "+"}

RECURSIVE StringsOfLen(_)
StringsOfLen(n) ==
    IF n = 0 THEN {""}
    ELSE {s \o c : s \in StringsOfLen(n - 1), c \in FilterAlphabet}

ShortTexts == UNION {StringsOfLen(n) : n \in 0..MaxShortLen}

Phrases ==
    {"What's the weather today?", "What is the weather like today?",
     "How to hack into systems", "HACK the 2+2", "Solve 2x + 5 = 13 then attack",
     "my personal  information", "personal informations", "generate malware for 3*4",
     "create harmful", "hacker", "Solve the equation 2x + 5 = 13", "What is 15% of 80",
     "Calculate the derivative of x^2 + 3x using calculus", "hello there",
     "Solve x + 2 = 3*4 in the car", "Calculate 2+2 for the weather",
     "derivative of the matrix in the car", "area of a circle", "Find eigenvalue",
     "the limit", "what is 5", "3.14", "1/2", "x = 1", "$$$$2+2$$$", "2 + 2",
     "how are you", "a function", "tell me a story about 2+2", "sin", "math"}

LongTails == {" hack", " weather", ""}

\* texts of about max_length characters, with a tail that begins up to PadSlack
\* characters before the 1000th character
LongTexts ==
    {"2+2 " \o Repeat(".", n) \o t \o Repeat(".", PadSlack) :
        n \in (max_length - 4 - PadSlack)..(max_length - 4), t \in LongTails}

\* the input of test_too_long_content
LongVariable == Repeat("x", 1500)

\* texts over max_length characters of which 30 percent, or one character
\* more, of the first max_length are special
LongSpecial ==
    {"2+2 " \o Repeat("$", n) \o Repeat(".", max_length - n) :
        n \in {(3 * max_length) \div 10, (3 * max_length) \div 10 + 1}}

FilterInputs == ShortTexts \cup Phrases \cup LongTexts \cup {LongVariable} \cup LongSpecial

-----------------------------------------------------------------------------
(* InputFilter.process applied to one input                                *)

FilterInit ==
    /\ filterPc = "input"
    /\ filterInput \in FilterInputs
    /\ filterResult = NoFilterResult
    /\ SolverIdle
    /\ PipelineIdle
    /\ StoreEmpty
    /\ FeedbackIdle
    /\ WebIdle

Process ==
    /\ filterPc = "input"
    /\ filterResult' = InputFilterProcess(filterInput)
    /\ filterPc' = "done"
    /\ UNCHANGED <<filterInput, solverVars, pipelineVars, storeVars, feedbackVars>>
    /\ UNCHANGED webVars

FilterNext == Process

SpecFilter == FilterInit /\ [][FilterNext]_vars

-----------------------------------------------------------------------------
(* OutputFilter.process applied to one text: none, one or two refusal       *)
(* phrases, then a body, then a tail that may make the text too long        *)

OutputOpenings ==
    {"", "I cannot help with this request. ",
     "I cannot help with that. This request violates the usage policy. "}

OutputBodies ==
    {"No.", "Nothing", "It is what it is, nothing more to say.",
     "The answer is x = 4.",
     "Therefore the solution is 2 + 2 = 4, so the result is 4.",
     "1. Subtract 5 from both sides\n\n\n\n2. Divide by  2",
     "Here's how to hack into systems illegally",
     "my private  information"}

\* more characters than max_answer_length
LongTail == Repeat(" .", (max_answer_length \div 2) + 1)

OutputTails == {"", " That is unlawful", LongTail, LongTail \o " That is unlawful"}

OutputTexts ==
    {o \o b \o t : o \in OutputOpenings, b \in OutputBodies, t \in OutputTails}
        \cup {"", "  "}

OutputInit ==
    /\ filterPc = "output"
    /\ filterInput \in OutputTexts
    /\ filterResult = NoFilterResult
    /\ SolverIdle
    /\ PipelineIdle
    /\ StoreEmpty
    /\ FeedbackIdle
    /\ WebIdle

ProcessOutput ==
    /\ filterPc = "output"
    /\ filterResult' = OutputFilterProcess(filterInput)
    /\ filterPc' = "output_done"
    /\ UNCHANGED <<filterInput, solverVars, pipelineVars, storeVars, feedbackVars>>
    /\ UNCHANGED webVars

OutputNext == ProcessOutput

SpecOutput == OutputInit /\ [][OutputNext]_vars

-----------------------------------------------------------------------------
(* Inputs of the fallback solver: arithmetic expressions "a op b", linear   *)
(* equations "a x + b = c" and "a x - b = c" in several spacings, and       *)
(* questions in words.                                                      *)

MaxOperand == 12
MaxCoeff   == 5
MaxConst   == 8
MaxRight   == 13

\* a right-hand side that begins like the right-hand side 10
LongRight == 100

\* the coefficient is not written
Omitted == 0 - 1

Layouts == {"spaced", "tight", "wide"}

\* the operators of ArithOps that a question is written with
WrittenOps == {"+", "-", "*", "/"}

ArithmeticCases ==
    {Case("arithmetic", a, op, b, 0) : a \in 0..MaxOperand, op \in WrittenOps, b \in 0..MaxOperand}

LinearCases ==
    {Case("linear", a, op, b, c) :
        a \in {Omitted} \cup 0..MaxCoeff, op \in {"+", "-"}, b \in 0..MaxConst,
        c \in 0..MaxRight \cup {LongRight}}

\* the question that writes the case down
Written(case, layout) ==
    LET gap   == IF layout = "tight" THEN "" ELSE " "
        coeff == IF case.a = Omitted THEN "" ELSE ToString(case.a)
        x     == IF layout = "wide" /\ case.a # Omitted THEN " x" ELSE "x"
        pad   == IF layout = "wide" THEN " " ELSE ""
    IN  IF case.form = "arithmetic"
        THEN pad \o ToString(case.a) \o gap \o case.op \o gap \o ToString(case.b) \o pad
        ELSE coeff \o x \o gap \o case.op \o gap \o ToString(case.b)
                 \o gap \o "=" \o gap \o ToString(case.c)

\* an operand with more digits than int() converts
LongOperand == Repeat("1", int_max_str_digits + 1)

WordQuestions ==
    {"What is the derivative of x^2", "Differentiate sin(x)", "integrate x dx",
     "Find the integral of 2x", "area of a circle with radius 5",
     "What is 15% of 80", "20 percent of 50", "what is 2 plus 3", "12 + 7 * 3",
     "Explain prime numbers", "Solve 2x + 5 = 13", "x = ", "y = 2x + 1",
     "Solve 3x+7=10 and explain", "2x + 5 = 1_3", "2x + 5 = 13.5",
     "x=", "derivative of the area = 2", "integrate the derivative",
     "area under the integral", "50% of the area", "15 percent plus 5",
     "differentiate 3 + 4", "triangle - circle", LongOperand \o " + 1"}

SolverInit ==
    /\ solverPc = "input"
    /\ \/ \E case \in ArithmeticCases \cup LinearCases, layout \in Layouts :
             /\ solverCase = case
             /\ solverQuestion = Written(case, layout)
       \/ /\ solverCase = Case("words", 0, "", 0, 0)
          /\ solverQuestion \in WordQuestions
    /\ solverAnswer = NoAnswer
    /\ FilterIdle
    /\ PipelineIdle
    /\ StoreEmpty
    /\ FeedbackIdle
    /\ WebIdle

\* LLMService._comprehensive_fallback_solution(question)
Solve ==
    /\ solverPc = "input"
    /\ solverAnswer' = _comprehensive_fallback_solution(solverQuestion)
    /\ solverPc' = "done"
    /\ UNCHANGED <<solverCase, solverQuestion, filterVars, pipelineVars, storeVars,
                   feedbackVars>>
    /\ UNCHANGED webVars

SolverNext == Solve

SpecSolver == SolverInit /\ [][SolverNext]_vars

-----------------------------------------------------------------------------
(* routes.py : solve_math_problem resolving one request.  Each await of the *)
(* route is a step; what the vector store, the search API, the Gemini API   *)
(* and the database answer is drawn at the step that receives it.           *)

MaxResults == 3

PipelineQuestions ==
    {"Solve 2x + 5 = 13", "7/2", "is 2+2 illegal", "hack 2+2", "What is the weather today",
     "Solve 2x + 5 = 13 like Gemini AI"}

Requests ==
    {MathQuery(q, None, None) : q \in PipelineQuestions}
        \cup {MathQuery("Solve 2x + 5 = 13", None, Some("u1"))}

\* average distances of the documents found, in hundredths
Distances == {5, 29, 30, 31}

KbOutcomes == {KbError, KbEmpty} \cup {KbDocuments(d) : d \in Distances}

SearchOutcomes ==
    {[kind |-> k, items |-> 0] : k \in {"disabled", "timeout", "http_error", "exception"}}
        \cup {[kind |-> "ok", items |-> n] : n \in 0..MaxResults}

GeminiText  == "Subtract 5 from both sides, then divide by 2. The answer is x = 4."
RefusalText == "I cannot help with that. This request violates the usage policy."

LlmOutcomes ==
    {LlmOutcome(FALSE, "", FALSE, ""),
     LlmOutcome(TRUE, GeminiText, TRUE, ""),
     LlmOutcome(TRUE, RefusalText, TRUE, ""),
     LlmOutcome(TRUE, "", TRUE, GeminiText),
     LlmOutcome(TRUE, "", TRUE, ""),
     LlmOutcome(TRUE, "", FALSE, "")}

\* str(uuid.uuid4()): an id no query log has
FreshQueryId(S) ==
    LET used == DOMAIN S.query_logs \cup DOMAIN S.db_query_logs
        n    == CHOOSE k \in 1..(Cardinality(used) + 1) :
                    /\ ("q" \o ToString(k)) \notin used
                    /\ \A j \in 1..(k - 1) : ("q" \o ToString(j)) \in used
    IN  "q" \o ToString(n)

PipelineInit ==
    /\ pipelinePc = "received"
    /\ request \in Requests
    /\ filtered_query = NoFilterResult
    /\ kb_confidence = NoConfidence
    /\ google_search_data = NoSearchData
    /\ result = NoResult
    /\ filtered_output = NoVerdict
    /\ response = NoResponse
    /\ error = NoError
    /\ calls = <<>>
    /\ StoreEmpty
    /\ FeedbackIdle
    /\ FilterIdle
    /\ SolverIdle
    /\ WebIdle

\* routes.py 34-48: the input filter; a rejected question is answered 400
\* (for a non-mathematical question the detail is a dict with this message)
InputFiltered(filtered) ==
    /\ filtered_query' = filtered
    /\ IF filtered.is_safe
       THEN /\ pipelinePc' = "knowledge_base"
            /\ error' = error
       ELSE /\ pipelinePc' = "failed"
            /\ error' = HTTPException(400, filtered.message)

\* routes.py 34: input_filter.process(query.question)
InputFiltering ==
    /\ pipelinePc = "received"
    /\ InputFiltered(InputFilterProcess(request.question))
    /\ UNCHANGED <<request, kb_confidence, google_search_data, result, filtered_output,
                   response, calls>>
    /\ UNCHANGED <<filterVars, solverVars, storeVars, feedbackVars>>
    /\ UNCHANGED webVars

\* routes.py 51: knowledge_base.query is called
KnowledgeBaseCall ==
    /\ pipelinePc = "knowledge_base"
    /\ calls' = Append(calls, "knowledge_base.query")
    /\ pipelinePc' = "knowledge_base_wait"
    /\ UNCHANGED <<request, filtered_query, kb_confidence, google_search_data, result,
                   filtered_output, response, error>>
    /\ UNCHANGED <<filterVars, solverVars, storeVars, feedbackVars>>
    /\ UNCHANGED webVars

\* routes.py 51-52: knowledge_base.query returns; when it found documents it
\* has called the LLM service to synthesize its own answer
KnowledgeBaseReturn ==
    /\ pipelinePc = "knowledge_base_wait"
    /\ \E outcome \in KbOutcomes :
          /\ kb_confidence' = KnowledgeBaseConfidence(outcome)
          /\ calls' = calls
                \o (IF outcome.kind = "documents"
                    THEN <<"llm_service.generate_step_by_step_solution",
                           "llm_service.generate_step_by_step_solution returned">>
                    ELSE <<>>)
                \o <<"knowledge_base.query returned">>
    /\ pipelinePc' = "google_search"
    /\ UNCHANGED <<request, filtered_query, google_search_data, result, filtered_output,
                   response, error>>
    /\ UNCHANGED <<filterVars, solverVars, storeVars, feedbackVars>>
    /\ UNCHANGED webVars

\* routes.py 58-64: the confidence is low, search_math_query is called
GoogleSearchCall ==
    /\ pipelinePc = "google_search"
    /\ KbLow(kb_confidence)
    /\ calls' = Append(calls, "google_search_service.search_math_query")
    /\ pipelinePc' = "google_search_wait"
    /\ UNCHANGED <<request, filtered_query, kb_confidence, google_search_data, result,
                   filtered_output, response, error>>
    /\ UNCHANGED <<filterVars, solverVars, storeVars, feedbackVars>>
    /\ UNCHANGED webVars

\* routes.py 72-73: the confidence is not low, no search
GoogleSearchSkip ==
    /\ pipelinePc = "google_search"
    /\ ~KbLow(kb_confidence)
    /\ pipelinePc' = "generate"
    /\ UNCHANGED <<request, filtered_query, kb_confidence, google_search_data, result,
                   filtered_output, response, error, calls>>
    /\ UNCHANGED <<filterVars, solverVars, storeVars, feedbackVars>>
    /\ UNCHANGED webVars

\* a search without result is tried a second time
GoogleSearchReturn_retry ==
    /\ pipelinePc = "google_search_wait"
    /\ \E outcome \in SearchOutcomes :
          /\ google_search_data' = search_math_query(outcome)
          /\ pipelinePc' = IF ~HasResults(search_math_query(outcome)) /\ Len(calls) < 5
                           THEN "google_search" ELSE "generate"
    /\ calls' = Append(calls, "google_search_service.search_math_query returned")
    /\ UNCHANGED <<request, filtered_query, kb_confidence, result, filtered_output,
                   response, error>>
    /\ UNCHANGED <<filterVars, solverVars, storeVars, feedbackVars>>
    /\ UNCHANGED webVars

\* routes.py 60-71: search_math_query returns
GoogleSearchReturn ==
    /\ pipelinePc = "google_search_wait"
    /\ \E outcome \in SearchOutcomes :
          google_search_data' = search_math_query(outcome)
    /\ calls' = Append(calls, "google_search_service.search_math_query returned")
    /\ pipelinePc' = "generate"
    /\ UNCHANGED <<request, filtered_query, kb_confidence, result, filtered_output,
                   response, error>>
    /\ UNCHANGED <<filterVars, solverVars, storeVars, feedbackVars>>
    /\ UNCHANGED webVars

\* routes.py 76-130: the answer of the LLM service, the references, the result
GenerateSolution ==
    /\ pipelinePc = "generate"
    /\ \E llm \in LlmOutcomes :
          LET llm_answer == generate_step_by_step_solution(filtered_query.content, llm)
          IN  result' = Result(llm_answer, filtered_query.content, FreshQueryId(TheStore),
                               kb_confidence, google_search_data)
    /\ calls' = calls \o <<"llm_service.generate_step_by_step_solution",
                           "llm_service.generate_step_by_step_solution returned">>
    /\ pipelinePc' = "output_filter"
    /\ UNCHANGED <<request, filtered_query, kb_confidence, google_search_data,
                   filtered_output, response, error>>
    /\ UNCHANGED <<filterVars, solverVars, storeVars, feedbackVars>>
    /\ UNCHANGED webVars

\* routes.py 142-158: the output filter; an answer it rejects is answered 500
OutputFiltered(verdict) ==
    /\ filtered_output' = verdict
    /\ IF verdict.is_safe
       THEN /\ response' = MathResponse(result, verdict)
            /\ pipelinePc' = "log_query"
            /\ error' = error
       ELSE /\ response' = response
            /\ pipelinePc' = "failed"
            /\ error' = HTTPException(500, "Generated response failed safety checks")

\* routes.py 142: output_filter.process(result.answer)
OutputFiltering ==
    /\ pipelinePc = "output_filter"
    /\ OutputFiltered(OutputVerdict(result.answer))
    /\ UNCHANGED <<request, filtered_query, kb_confidence, google_search_data, result, calls>>
    /\ UNCHANGED <<filterVars, solverVars, storeVars, feedbackVars>>
    /\ UNCHANGED webVars

\* routes.py 161-168 and 173-180: the query is logged and the response
\* returned; when log_query raises, the request is answered 500
LogQuery ==
    /\ pipelinePc = "log_query"
    /\ \E connect, execute \in BOOLEAN :
          LET query_log == QueryLog(response.query_id, request.question, response.answer,
                                    0, <<>>, request.user_id, None)
              logged    == log_query(TheStore, query_log, connect, execute)
          IN  /\ SetStore(logged.store)
              /\ IF logged.raised
                 THEN /\ pipelinePc' = "failed"
                      /\ error' = HTTPException(500,
                                      "Error processing query: " \o DatabaseErrorText)
                 ELSE /\ pipelinePc' = "responded"
                      /\ error' = error
    /\ UNCHANGED <<request, filtered_query, kb_confidence, google_search_data, result,
                   filtered_output, response, calls>>
    /\ UNCHANGED <<filterVars, solverVars, feedbackVars>>
    /\ UNCHANGED webVars

\* str(uuid.uuid4()): an id no feedback has
FreshFeedbackId(S) ==
    LET used == DOMAIN S.feedback_entries \cup DOMAIN S.db_feedback
        n    == CHOOSE k \in 1..(Cardinality(used) + 1) :
                    /\ ("f" \o ToString(k)) \notin used
                    /\ \A j \in 1..(k - 1) : ("f" \o ToString(j)) \in used
    IN  "f" \o ToString(n)

\* routes.py 182-199: the user of an answered query sends negative feedback
\* on it; process_feedback reads the record LogQuery wrote
NegativeFeedback ==
    /\ pipelinePc = "responded"
    /\ \E connect, execute \in BOOLEAN :
          LET done == process_feedback(TheStore, response.query_id, "negative",
                          Some("wrong"), None, request.user_id,
                          FreshFeedbackId(TheStore), connect, execute)
          IN  /\ SetStore(done.store)
              /\ feedback_result' = done.result
              /\ feedback_list' = <<>>
              /\ feedback_call' = Call("process_feedback", response.query_id,
                                       FeedbackInput("negative", Some("wrong"), None),
                                       TheStore)
    /\ pipelinePc' = "feedback"
    /\ UNCHANGED <<request, filtered_query, kb_confidence, google_search_data, result,
                   filtered_output, response, error, calls>>
    /\ UNCHANGED <<filterVars, solverVars>>
    /\ UNCHANGED webVars

PipelineNext ==
    \/ InputFiltering
    \/ KnowledgeBaseCall
    \/ KnowledgeBaseReturn
    \/ GoogleSearchCall
    \/ GoogleSearchSkip
    \/ GoogleSearchReturn
    \/ GenerateSolution
    \/ OutputFiltering
    \/ LogQuery
    \/ NegativeFeedback

SpecPipeline == PipelineInit /\ [][PipelineNext]_vars

-----------------------------------------------------------------------------
(* feedback.py : the feedback manager called in any order, and restarted,   *)
(* over a database that is available or not at each call (when it is not,   *)
(* connecting fails and statements fail).                                   *)

MaxFeedback == 1

QueryIds == {"q1", "q2"}

\* what the route logs for an answered question
LoggedQuestion == "Solve 2x + 5 = 13"

\* the questions log_query is called with
LoggedQuestions == {LoggedQuestion, "12 / 4"}

FeedbackInputs ==
    {FeedbackInput("positive", None, None),
     FeedbackInput("negative", Some("wrong"), None),
     FeedbackInput("correction", None, None),
     FeedbackInput("correction", None, Some("x = 4")),
     FeedbackInput("rating", None, None)}

FeedbackInit ==
    /\ StoreEmpty
    /\ FeedbackIdle
    /\ PipelineIdle
    /\ FilterIdle
    /\ SolverIdle
    /\ WebIdle

\* main.py startup_event: init_database()
InitDatabase ==
    /\ ~db_initialized
    /\ db_initialized' = TRUE
    /\ feedback_call' = Call("init_database", "", NoCall.input, EmptyStore)
    /\ feedback_list' = <<>>
    /\ UNCHANGED <<query_logs, feedback_entries, db_query_logs, db_feedback, feedback_result>>
    /\ UNCHANGED <<filterVars, solverVars, pipelineVars>>
    /\ UNCHANGED webVars

\* the process starts again: the caches are empty, the database is not
\* initialized, its tables are what they were
Restart ==
    /\ TheStore # Store(<<>>, <<>>, FALSE, db_query_logs, db_feedback)
    /\ SetStore(Store(<<>>, <<>>, FALSE, db_query_logs, db_feedback))
    /\ feedback_call' = Call("restart", "", NoCall.input, EmptyStore)
    /\ feedback_list' = <<>>
    /\ UNCHANGED feedback_result
    /\ UNCHANGED <<filterVars, solverVars, pipelineVars>>
    /\ UNCHANGED webVars

\* FeedbackManager.log_query, as the route calls it
LogAnswer ==
    /\ \E query_id \in QueryIds, question \in LoggedQuestions, available \in BOOLEAN :
          /\ SetStore(log_query(TheStore,
                                QueryLog(query_id, question,
                                         _comprehensive_fallback_solution(question),
                                         0, <<>>, None, None),
                                available, available).store)
          /\ feedback_call' = Call("log_query", query_id, NoCall.input, EmptyStore)
    /\ feedback_list' = <<>>
    /\ UNCHANGED feedback_result
    /\ UNCHANGED <<filterVars, solverVars, pipelineVars>>
    /\ UNCHANGED webVars

\* FeedbackManager.process_feedback
SubmitFeedback ==
    /\ Cardinality(DOMAIN feedback_entries \cup DOMAIN db_feedback) < MaxFeedback
    /\ \E query_id \in QueryIds, input \in FeedbackInputs, available \in BOOLEAN :
          LET done == process_feedback(TheStore, query_id, input.feedback_type,
                          input.feedback_text, input.corrected_answer, None,
                          FreshFeedbackId(TheStore), available, available)
          IN  /\ SetStore(done.store)
              /\ feedback_result' = done.result
              /\ feedback_list' = <<>>
              /\ feedback_call' = Call("process_feedback", query_id, input, TheStore)
    /\ UNCHANGED <<filterVars, solverVars, pipelineVars>>
    /\ UNCHANGED webVars

\* the feedback ids, in the order in which a process gives them out
FeedbackIdOrder(ids) ==
    SelectSeq([k \in 1..(MaxFeedback + 1) |-> "f" \o ToString(k)], LAMBDA id : id \in ids)

\* DatabaseManager.get_feedback_for_query: the select has no ORDER BY, the
\* rows of the query id come in any order
Selections(S, query_id) ==
    LET ids == {id \in DOMAIN S.db_feedback : S.db_feedback[id].query_id = query_id}
    IN  {[i \in DOMAIN order |-> S.db_feedback[order[i]]] :
            order \in {seq \in [1..Cardinality(ids) -> ids] :
                          \A i, j \in 1..Cardinality(ids) : i # j => seq[i] # seq[j]}}

\* FeedbackManager.get_feedback_for_query: the store it leaves and the list
\* it returns, rows being what the select gave
get_feedback_for_query(S, query_id, connect, execute, rows) ==
    LET in_memory == FeedbackIdOrder({id \in DOMAIN S.feedback_entries :
                                         S.feedback_entries[id].query_id = query_id})
        feedback_list_ == [i \in DOMAIN in_memory |-> S.feedback_entries[in_memory[i]]]
    IN  IF GetDatabaseRaises(S, connect)
        THEN [store |-> S, list |-> <<>>]
        ELSE [store |-> Connected(S),
              list  |-> feedback_list_ \o (IF execute THEN rows ELSE <<>>)]

\* FeedbackManager.get_feedback_for_query
GetFeedback ==
    /\ \E query_id \in QueryIds, available \in BOOLEAN :
          \E rows \in Selections(TheStore, query_id) :
              LET got == get_feedback_for_query(TheStore, query_id, available, available, rows)
              IN  /\ SetStore(got.store)
                  /\ feedback_list' = got.list
                  /\ feedback_call' = Call("get_feedback_for_query", query_id,
                                           NoCall.input, EmptyStore)
    /\ UNCHANGED feedback_result
    /\ UNCHANGED <<filterVars, solverVars, pipelineVars>>
    /\ UNCHANGED webVars

FeedbackNext ==
    \/ InitDatabase
    \/ Restart
    \/ LogAnswer
    \/ SubmitFeedback

SpecFeedback == FeedbackInit /\ [][FeedbackNext]_vars

\* the feedback manager written to and read in any order
FeedbackListNext ==
    \/ InitDatabase
    \/ Restart
    \/ LogAnswer
    \/ SubmitFeedback
    \/ GetFeedback

SpecFeedbackList == FeedbackInit /\ [][FeedbackListNext]_vars

-----------------------------------------------------------------------------
(* web_search.py : WebSearchAgent.search_and_synthesize.  The searches of   *)
(* the engines are started together and awaited with                        *)
(* asyncio.gather with return_exceptions=True; what a search ends with is  *)
(* drawn when it ends, and the searches end in any order.                   *)

\* the keys of self.search_engines, in the order of the dict
search_engines == <<"duckduckgo", "wolfram">>

Engines == {search_engines[i] : i \in DOMAIN search_engines}

MaxEngineResults == 2

EngineSource(engine) ==
    IF engine = "duckduckgo" THEN "DuckDuckGo Search" ELSE "Wolfram Alpha"

EngineResult(engine, i) == [title |-> engine \o " result " \o ToString(i)]

\* what a search ended with: "exception" is an Exception raised, "cancelled"
\* an asyncio.CancelledError (a BaseException), "none" the value None,
\* "dict" a dict with these values
EngineOutcome(kind, success, results, sources) ==
    [kind |-> kind, success |-> success, results |-> results, sources |-> sources]

Pending == EngineOutcome("pending", FALSE, <<>>, <<>>)

EngineOutcomes(engine) ==
    {EngineOutcome(kind, FALSE, <<>>, <<>>) : kind \in {"exception", "cancelled", "none", "dict"}}
        \cup {EngineOutcome("dict", TRUE, [i \in 1..n |-> EngineResult(engine, i)],
                            <<EngineSource(engine)>>) : n \in 0..MaxEngineResults}

\* the results handed over in the order in which the searches ended
gather_as_completed(tasks, order) == [i \in DOMAIN order |-> tasks[order[i]]]

\* asyncio.gather: the results in the order of the tasks, whatever the order
\* in which they ended
gather(tasks, order) == [i \in DOMAIN search_engines |-> tasks[search_engines[i]]]

\* _enhance_math_query
_enhance_math_query(query, context) ==
    LET enhanced == IF Truthy(context)
                    THEN (CHOOSE c \in context : TRUE) \o " " \o query ELSE query
    IN  IF ContainsAny(LowerStr(enhanced),
                       {"mathematics", "formula", "equation", "calculation", "solution"})
        THEN enhanced ELSE enhanced \o " mathematics"

RECURSIVE Collect(_, _, _)
\* lines 62-71: the field of the results from position i on that are a dict
\* with success, one after the other
Collect(search_results, i, field) ==
    IF i > Len(search_results) THEN <<>>
    ELSE (IF search_results[i].kind = "dict" /\ search_results[i].success
          THEN search_results[i][field] ELSE <<>>)
             \o Collect(search_results, i + 1, field)

\* _calculate_confidence, in hundredths; the synthesized answer, which ends
\* with three references, is longer than 100 characters
_calculate_confidence(results) ==
    IF Len(results) = 0 THEN 10
    ELSE Min(Min(70, 30 + 10 * Len(results)) + 10, 80)

SearchResult(answer, confidence, sources, reasoning_steps, raw_results) ==
    [answer |-> answer, confidence |-> confidence, sources |-> sources,
     reasoning_steps |-> reasoning_steps, raw_results |-> raw_results]

\* the orders in which list(set(sources)) can list the members of the set
Orders(set) ==
    {seq \in [1..Cardinality(set) -> set] :
        \A i, j \in 1..Cardinality(set) : i # j => seq[i] # seq[j]}

SourceSet(search_results) ==
    {Collect(search_results, 1, "sources")[i] :
        i \in DOMAIN Collect(search_results, 1, "sources")}

\* lines 58-117, for the list gather gave and an order of the set of sources.
\* A CancelledError in the list is no Exception: result.get raises
\* AttributeError on it, which the except branch turns into the error result.
\* Of the synthesized answer only the first line is kept.
Synthesized(query, context, valid_results, sources_order) ==
    IF Len(valid_results) = 0
    THEN SearchResult("No relevant information found through web search.", 10, <<>>,
                      <<"Attempted web search but found no relevant results">>, <<>>)
    ELSE SearchResult("## Mathematical Solution for: " \o query,
                      _calculate_confidence(valid_results), sources_order,
                      <<"Enhanced query: " \o _enhance_math_query(query, context),
                        "Searched " \o ToString(Len(search_engines)) \o " sources",
                        "Found " \o ToString(Len(valid_results)) \o " relevant results",
                        "Synthesized answer from search results">>,
                      valid_results)

search_and_synthesize(query, context, search_results, sources_order) ==
    IF \E i \in DOMAIN search_results : search_results[i].kind = "cancelled"
    THEN SearchResult("An error occurred during web search.", 0, <<>>,
                      <<"Error: 'CancelledError' object has no attribute 'get'">>, <<>>)
    ELSE Synthesized(query, context, Collect(search_results, 1, "results"), sources_order)

WebQueries == {"solve 2x + 5 = 13", "equation of a circle"}

WebInit ==
    /\ webPc = "called"
    /\ webQuery \in WebQueries
    /\ search_tasks = <<>>
    /\ completed = <<>>
    /\ search_result = NoSearchResult
    /\ FilterIdle
    /\ SolverIdle
    /\ PipelineIdle
    /\ StoreEmpty
    /\ FeedbackIdle

\* lines 51-55: one task per engine
StartSearches ==
    /\ webPc = "called"
    /\ search_tasks' = [engine \in Engines |-> Pending]
    /\ webPc' = "gathering"
    /\ UNCHANGED <<webQuery, completed, search_result>>
    /\ UNCHANGED <<filterVars, solverVars, pipelineVars, storeVars, feedbackVars>>

\* the search of one engine ends
EngineEnds ==
    /\ webPc = "gathering"
    /\ \E engine \in Engines :
          /\ search_tasks[engine] = Pending
          /\ \E outcome \in EngineOutcomes(engine) :
                search_tasks' = [search_tasks EXCEPT ![engine] = outcome]
          /\ completed' = Append(completed, engine)
    /\ UNCHANGED <<webPc, webQuery, search_result>>
    /\ UNCHANGED <<filterVars, solverVars, pipelineVars, storeVars, feedbackVars>>

\* lines 58-117: every search has ended, gather returns and the call ends
GatherReturns ==
    /\ webPc = "gathering"
    /\ \A engine \in Engines : search_tasks[engine] # Pending
    /\ \E sources_order \in Orders(SourceSet(gather(search_tasks, completed))) :
          search_result' = search_and_synthesize(webQuery, None,
                               gather(search_tasks, completed), sources_order)
    /\ webPc' = "returned"
    /\ UNCHANGED <<webQuery, search_tasks, completed>>
    /\ UNCHANGED <<filterVars, solverVars, pipelineVars, storeVars, feedbackVars>>

WebNext ==
    \/ StartSearches
    \/ EngineEnds
    \/ GatherReturns

SpecWeb == WebInit /\ [][WebNext]_vars

-----------------------------------------------------------------------------
(* The whole model                                                         *)

Init ==
    FilterInit \/ OutputInit \/ SolverInit \/ PipelineInit \/ FeedbackInit \/ WebInit
Next ==
    FilterNext \/ OutputNext \/ SolverNext \/ PipelineNext \/ FeedbackListNext \/ WebNext
Spec == Init /\ [][Next]_vars

-----------------------------------------------------------------------------
(* Claims about the input filter                                           *)

\* the content the checks after the length validation see
C_Content(raw) == Prefix(Strip(raw), 1000)

C_Blocked(text) == \E i \in DOMAIN blocked_patterns : SearchI(blocked_patterns[i], text)

C_OffDomain(text) == \E i \in DOMAIN non_math_indicators : SearchI(non_math_indicators[i], text)

C_Rejected(issue) == ~filterResult.is_safe /\ filterResult.issues = <<issue>>

\* C6, as stated: every input that matches a blocked-intent pattern is rejected
\* with blocked_pattern, also when it is longer than 1000 characters.
C6_Original ==
    (filterPc = "done" /\ C_Blocked(filterInput)) => C_Rejected("blocked_pattern")

\* C6, amended: an input is rejected with blocked_pattern exactly when its
\* stripped content, truncated to the first 1000 characters, matches a
\* blocked-intent pattern, whatever its mathematical content.
C6_BlockedRejected ==
    filterPc = "done" =>
        (C_Blocked(C_Content(filterInput)) <=> C_Rejected("blocked_pattern"))

C6_Witness ==
    /\ filterPc = "done"
    /\ Len(Strip(filterInput)) > 1000
    /\ C_Blocked(C_Content(filterInput))
    /\ Search(AnyArithmeticPattern, filterInput)
    /\ C_Rejected("blocked_pattern")

\* C7, as stated: every input shorter than 3 characters, the empty and the
\* whitespace-only ones included, is rejected with content_too_short.
C7_Original ==
    (filterPc = "done" /\ Len(filterInput) < 3) => C_Rejected("content_too_short")

\* C7, amended: every input shorter than 3 characters is rejected, with
\* content_too_short when it holds a non-whitespace character and with
\* empty_content when it is empty or whitespace-only.
C7_ShortRejected ==
    (filterPc = "done" /\ Len(filterInput) < 3) =>
        IF \E i \in 1..Len(filterInput) : CharAt(filterInput, i) \notin Spaces
        THEN C_Rejected("content_too_short")
        ELSE C_Rejected("empty_content")

C7_Witness ==
    /\ filterPc = "done"
    /\ Len(filterInput) = 2
    /\ CharAt(filterInput, 1) \notin Spaces
    /\ C_Rejected("content_too_short")

\* the input reaches the relevance scoring of InputFilter.process
C_Scored(raw) ==
    /\ Strip(raw) # ""
    /\ Len(C_Content(raw)) >= 3
    /\ ~C_Blocked(C_Content(raw))

-----------------------------------------------------------------------------
(* Claims about the fallback solver                                        *)

\* the float is the int c
C_DoubleIsInt(d, c) == d.frac = <<>> /\ d.int = Abs(c) /\ (d.neg <=> c < 0)

\* the float is exactly the rational a / b
C_DoubleIsRatio(d, a, b) ==
    /\ Len(d.frac) <= BitLen(Abs(b))
    /\ (d.int * Pow2(Len(d.frac)) + BitsValue(d.frac)) * Abs(b) = Abs(a) * Pow2(Len(d.frac))
    /\ (a = 0 \/ (d.neg <=> ((a < 0) # (b < 0))))

\* the number the answer shows is exactly a / b
C_ValueIs(number, a, b) ==
    IF number.type = "int" THEN number.int * b = a
    ELSE C_DoubleIsRatio(number.float, a, b)

RECURSIVE C_GCD(_, _)
C_GCD(a, b) == IF b = 0 THEN a ELSE C_GCD(b, a % b)

C_PowerOfTwo(n) == \E k \in 0..BitLen(n) : n = Pow2(k)

C_Solved(form) == solverPc = "done" /\ solverCase.form = form

C_QuotientIs(number, a, b) ==
    IF number.type = "int" THEN number.int * b = a
    ELSE number.float = TrueDiv(a, b)

\* C10, as stated: for a question "a x + b = c" or "a x - b = c" with a >= 1 or
\* omitted, the solver returns the x that satisfies the equation,
\* x = (c - b)/a respectively (c + b)/a (the quotient as the solver's number
\* type holds it), and its verification line obtains c; on "2x + 5 = 13" it
\* returns x = 4.
C10_Original ==
    (C_Solved("linear") /\ solverCase.a # 0) =>
        LET a == IF solverCase.a = Omitted THEN 1 ELSE solverCase.a
            n == IF solverCase.op = "+" THEN solverCase.c - solverCase.b
                                        ELSE solverCase.c + solverCase.b
        IN  /\ solverAnswer.kind \in {"linear_equation", "common_equation"}
            /\ C_QuotientIs(solverAnswer.solution, n, a)
            /\ C_ValueIs(solverAnswer.check, solverCase.c, 1)
            /\ solverQuestion = "2x + 5 = 13" => C_ValueIs(solverAnswer.solution, 4, 1)

-----------------------------------------------------------------------------
(* Claims about the resolution of a query                                  *)

C_SearchCall == "google_search_service.search_math_query"

\* how many times a service was called
C_Count(name) == Cardinality({i \in DOMAIN calls : calls[i] = name})

\* the route is past the decision to search
C_Decided ==
    \/ pipelinePc \in {"google_search_wait", "generate", "output_filter", "log_query",
                       "responded"}
    \/ pipelinePc = "failed" /\ error.status_code = 500

\* C1: the web search is called only after the knowledge base query has
\* returned and only for a confidence strictly below 0.7: once the route has
\* decided, it has been called once when the confidence is below 0.7 and not
\* at all when the confidence is 0.7 or more.
C1_SearchOnlyBelowThreshold ==
    /\ \A i \in DOMAIN calls :
          calls[i] = C_SearchCall =>
              \E j \in 1..(i - 1) : calls[j] = "knowledge_base.query returned"
    /\ C_Count(C_SearchCall) > 0 => (kb_confidence >= 0 /\ kb_confidence < 70)
    /\ C_Decided => C_Count(C_SearchCall) = (IF kb_confidence < 70 THEN 1 ELSE 0)

\* a response returned for a confidence of exactly 0.7, without any web search
C1_Witness ==
    /\ pipelinePc = "responded"
    /\ kb_confidence = 70
    /\ C_Count("knowledge_base.query returned") = 1
    /\ C_Count(C_SearchCall) = 0

\* the question was accepted, the confidence is below 0.7 and the web search
\* returned without any result
C_SearchFailed ==
    /\ filtered_query.is_safe
    /\ kb_confidence >= 0 /\ kb_confidence < 70
    /\ C_Count("google_search_service.search_math_query returned") = 1
    /\ Len(google_search_data.results) = 0

C_Finished == pipelinePc \in {"responded", "failed"}

\* C2 as stated: after a failed web search the resolution ends with a
\* response that carries a non-empty answer, never with an error.
C2_Original ==
    (C_SearchFailed /\ C_Finished) =>
        /\ pipelinePc = "responded"
        /\ response.answer_length > 0

\* C2: after a failed web search a non-empty answer is always obtained, from
\* the Gemini API or from the fallback solver, and the resolution ends either
\* with a response that carries it or with a 500: when the output filter
\* rejects that answer, or when log_query raises.
C2_AnswerDespiteSearchFailure ==
    (C_SearchFailed /\ C_Finished) =>
        /\ result.answer.kind # "none"
        /\ AnswerText(result.answer) # ""
        /\ pipelinePc = "responded" =>
              /\ response.answer = result.answer
              /\ response.answer_length > 0
              /\ error = NoError
        /\ pipelinePc = "failed" =>
              /\ error.status_code = 500
              /\ \/ /\ error.detail = "Generated response failed safety checks"
                    /\ ~filtered_output.is_safe
                 \/ /\ error.detail = "Error processing query: unable to open database file"
                    /\ filtered_output.is_safe
                    /\ ~db_initialized

\* a response returned after a web search that failed, its answer from the
\* fallback solver
C2_Witness ==
    /\ C_SearchFailed
    /\ ~google_search_data.present
    /\ pipelinePc = "responded"
    /\ response.answer_length > 0
    /\ response.answer.kind = "generic_equation"

\* C3 as stated: the response has exactly 3 references.
C3_Original == pipelinePc = "responded" => Len(response.sources) = 3

-----------------------------------------------------------------------------
(* Claims about the feedback manager                                       *)

C_Submitted == feedback_call.op = "process_feedback"

C_ValidType ==
    feedback_call.input.feedback_type \in {"positive", "negative", "correction", "clarification"}

\* the query id had a log before the call, in memory or in the database
C_Logged ==
    \/ feedback_call.query_id \in DOMAIN feedback_call.before.query_logs
    \/ feedback_call.query_id \in DOMAIN feedback_call.before.db_query_logs

\* the call created no feedback entry
C_NoEntryCreated ==
    /\ DOMAIN feedback_entries = DOMAIN feedback_call.before.feedback_entries
    /\ DOMAIN db_feedback = DOMAIN feedback_call.before.db_feedback

\* C4 as stated: feedback of a valid type for a query id without log fails
\* with a message that names the id and creates no entry.
C4_Original ==
    (C_Submitted /\ C_ValidType /\ ~C_Logged) =>
        /\ ~feedback_result.success
        /\ Contains(feedback_result.message, feedback_call.query_id)
        /\ C_NoEntryCreated

\* C4: feedback of a valid type for a query id without log fails and creates
\* no entry; the message is "Query <id> not found", except when the database
\* was not initialized and cannot be: then it is the error of the database.
C4_UnknownQueryFails ==
    (C_Submitted /\ C_ValidType /\ ~C_Logged) =>
        /\ ~feedback_result.success
        /\ feedback_result.actions_taken = <<>>
        /\ C_NoEntryCreated
        /\ \/ feedback_result.message = "Query " \o feedback_call.query_id \o " not found"
           \/ /\ feedback_result.message
                    = "Error processing feedback: unable to open database file"
              /\ ~feedback_call.before.db_initialized
              /\ ~db_initialized

\* feedback for a query id not logged, while another id has its log in the
\* database only
C4_Witness ==
    /\ C_Submitted /\ C_ValidType /\ ~C_Logged
    /\ feedback_call.before.query_logs = <<>>
    /\ feedback_call.before.db_query_logs # <<>>
    /\ feedback_result.message = "Query " \o feedback_call.query_id \o " not found"

\* C5 as stated: a correction without corrected answer for a logged query
\* fails and leaves no entry marked processed.
C5_Original ==
    (/\ C_Submitted
     /\ feedback_call.input.feedback_type = "correction"
     /\ feedback_call.input.corrected_answer = None
     /\ C_Logged) =>
        /\ ~feedback_result.success
        /\ \A f \in DOMAIN feedback_entries : ~feedback_entries[f].processed

\* a record kept for a query id, in memory or in the database, is replaced
C_Replaced(logs, logsAfter) ==
    \E id \in DOMAIN logs \cap DOMAIN logsAfter : logsAfter[id] # logs[id]

\* C11 as stated: no call of the feedback manager replaces the record held
\* for a query id, neither in query_logs nor in the table query_logs.
C11_Original ==
    [][/\ ~C_Replaced(query_logs, query_logs')
       /\ ~C_Replaced(db_query_logs, db_query_logs')]_vars

\* the feedback the last process_feedback created has its row in the table
C_Persisted == feedback_result.feedback_id \in DOMAIN db_feedback

\* the entry of the feedback the last process_feedback created is marked
C_MarkedProcessed ==
    /\ feedback_result.feedback_id \in DOMAIN feedback_entries
    /\ feedback_entries[feedback_result.feedback_id].processed

\* C12 as stated: the entry of a feedback is marked processed only when the
\* call succeeded, and a feedback whose persistence failed gets a failure
\* result and an entry not marked processed.
C12_Original ==
    (C_Submitted /\ C_ValidType /\ C_Logged) =>
        /\ C_MarkedProcessed => feedback_result.success
        /\ ~C_Persisted => (~feedback_result.success /\ ~C_MarkedProcessed)

-----------------------------------------------------------------------------
(* Claims about the /query route, continued                                *)

\* the Gemini API produced the answer of the response
C_FromGemini == response.answer.kind = "gemini"

\* C13 as stated: the confidence of a response is 0.90 exactly when the
\* Gemini API produced the answer and 0.75 exactly when the fallback solver
\* did.
C13_Original ==
    pipelinePc = "responded" =>
        /\ C_FromGemini <=> response.confidence = 90
        /\ ~C_FromGemini <=> response.confidence = 75

\* the titles of the results of the web search, by rank
C_WebTitles ==
    [i \in DOMAIN google_search_data.results |-> google_search_data.results[i].title]

\* the titles of the references generated for the question, by rank
C_GeneratedTitles ==
    [i \in 1..3 |-> _generate_dynamic_references(filtered_query.content)[i].title]

C_Titles(seq) == {seq[i] : i \in DOMAIN seq}

C_Rank(seq, title) == CHOOSE i \in DOMAIN seq : seq[i] = title

\* a comes before b in the list they are both taken from
C_RankedBefore(a, b) ==
    \/ /\ a \in C_Titles(C_WebTitles) /\ b \in C_Titles(C_WebTitles)
       /\ C_Rank(C_WebTitles, a) < C_Rank(C_WebTitles, b)
    \/ /\ a \in C_Titles(C_GeneratedTitles) /\ b \in C_Titles(C_GeneratedTitles)
       /\ C_Rank(C_GeneratedTitles, a) < C_Rank(C_GeneratedTitles, b)

\* C14: the sources of a response are at most 3, each a web result or a
\* generated reference; every web result comes before every generated
\* reference and each group keeps its rank order.
C14_SourcesBoundedAndOrdered ==
    pipelinePc = "responded" =>
        /\ Len(response.sources) <= 3
        /\ C_Titles(response.sources) \subseteq
                C_Titles(C_WebTitles) \cup C_Titles(C_GeneratedTitles)
        /\ \A i, j \in DOMAIN response.sources :
              i < j =>
                 \/ /\ response.sources[i] \in C_Titles(C_WebTitles)
                    /\ response.sources[j] \in C_Titles(C_GeneratedTitles)
                 \/ C_RankedBefore(response.sources[i], response.sources[j])

\* a response with two web results and then one generated reference
C14_Witness ==
    /\ pipelinePc = "responded"
    /\ Len(C_WebTitles) = 3
    /\ Len(response.sources) = 3
    /\ response.sources[1] = C_WebTitles[1]
    /\ response.sources[2] = C_WebTitles[2]
    /\ response.sources[3] = C_GeneratedTitles[1]

-----------------------------------------------------------------------------
(* Claims about the input and output filters, continued                    *)

C_HasIssue(res, issue) == \E i \in DOMAIN res.issues : res.issues[i] = issue

\* C15 as stated: the result for an input longer than 1000 characters has a
\* content of at most 1000 characters and content_too_long among its issues,
\* whatever the later checks say.
C15_Original ==
    (filterPc = "done" /\ Len(Strip(filterInput)) > max_length) =>
        /\ Len(filterResult.content) <= max_length
        /\ C_HasIssue(filterResult, "content_too_long")

\* the text is normalized: only word characters, single spaces and the
\* allowed punctuation, no space at either end
C_Normalized(text) ==
    /\ \A i \in 1..Len(text) : CharAt(text, i) \in WordChars \cup {" "} \cup AllowedSpecial
    /\ \A i \in 1..(Len(text) - 1) : ~(CharAt(text, i) = " " /\ CharAt(text, i + 1) = " ")
    /\ Strip(text) = text

C_Operators == {"+", "-", "*", "/", "=", "^", "%"}

C_Occurrences(text, c) == Cardinality({i \in 1..Len(text) : CharAt(text, i) = c})

\* C16 as stated: the content of every result, accepted or rejected, is the
\* normalized text, with the mathematical operators of the input kept.
C16_Original ==
    filterPc = "done" =>
        /\ C_Normalized(filterResult.content)
        /\ filterResult.content # "" =>
               \A c \in C_Operators :
                  C_Occurrences(filterResult.content, c)
                      = C_Occurrences(C_Content(filterInput), c)


\* the stripped text OutputFilter.process was given
C_OutputText == Strip(filterInput)

\* the part of it the filter keeps: at most max_answer_length characters and "..."
C_OutputContent ==
    IF Len(C_OutputText) > max_answer_length
    THEN Prefix(C_OutputText, max_answer_length) \o "..."
    ELSE C_OutputText

\* the confidence left after the penalties, in hundredths
C_Aggregate(content) ==
    100 - (IF Len(C_OutputText) < min_answer_length THEN 30 ELSE 0)
        - (IF Len(C_OutputText) > max_answer_length THEN 10 ELSE 0)
        - 40 * RefusalCount(content)
        - (IF _calculate_quality_score(content) < 30 THEN 30 ELSE 0)

C_OutputRule(content) ==
    /\ C_OutputText = ""
       => /\ ~filterResult.is_safe
          /\ filterResult.issues = <<"empty_response">>
    /\ (C_OutputText # "" /\ _contains_harmful_content(content))
       => /\ ~filterResult.is_safe
          /\ filterResult.confidence = 0
    /\ (C_OutputText # "" /\ ~_contains_harmful_content(content))
       => (~filterResult.is_safe <=> C_Aggregate(content) <= 40)
    /\ filterResult.issues = <<"refusal_pattern">> => filterResult.is_safe
    /\ filterResult.issues = <<"low_quality">> => filterResult.is_safe
    /\ filterResult.issues = <<"refusal_pattern", "low_quality">> => ~filterResult.is_safe

\* C17, as stated: OutputFilter.process rejects empty text with empty_response,
\* rejects every text that contains a harmful-content pattern with confidence 0,
\* and otherwise rejects exactly when 1.0 less the penalties (too short 0.3, too
\* long 0.1, each refusal phrase 0.4, quality below 0.3 0.3) is at most 0.4; one
\* refusal phrase alone or low quality alone is accepted, the two together are not.
C17_Original == filterPc = "output_done" => C_OutputRule(C_OutputText)

\* C17, amended: the same, where the harmful-content patterns, the refusal
\* phrases and the quality score are looked for in the content the filter keeps,
\* which is the first max_answer_length characters of a longer text
C17_OutputRejection == filterPc = "output_done" => C_OutputRule(C_OutputContent)

\* a short text of low quality is left at the threshold and is rejected
C17_Witness ==
    /\ filterPc = "output_done"
    /\ ~_contains_harmful_content(C_OutputContent)
    /\ C_Aggregate(C_OutputContent) = 40
    /\ ~filterResult.is_safe
    /\ filterResult.confidence = 40


\* the call failed validation: unknown type, or no log for the query id
C_FailedValidation == C_Submitted /\ (~C_ValidType \/ ~C_Logged)

\* C18, as stated: a feedback submission that fails validation (unknown type,
\* or a query id without log) is never answered by the submit_feedback endpoint
\* with the success message.
C18_Original ==
    C_FailedValidation =>
        submit_feedback(feedback_result).message # "Feedback received successfully"


-----------------------------------------------------------------------------
(* Claims about feedback on an answered query                              *)

C_Escalated ==
    \E i \in DOMAIN feedback_result.actions_taken :
        feedback_result.actions_taken[i]
            = "Queued high-confidence incorrect answer for manual review"

\* C19, as stated: negative feedback on a query the pipeline answered is
\* escalated to manual review exactly when the confidence of the response was
\* above 0.7, and the record the feedback manager reads has the confidence and
\* the sources of the response.
C19_Original ==
    (pipelinePc = "feedback" /\ feedback_result.success) =>
        /\ C_Escalated <=> response.confidence > 70
        /\ response.query_id \in DOMAIN query_logs
        /\ query_logs[response.query_id].confidence = response.confidence
        /\ query_logs[response.query_id].sources = response.sources


-----------------------------------------------------------------------------
(* Claims about a failure of the knowledge base                            *)

\* knowledge_base.query has returned the result of its except branch: the
\* only one with confidence 0
C_KbFailed ==
    /\ C_Count("knowledge_base.query returned") = 1
    /\ kb_confidence = 0

\* the position of the first call of that name in calls, 0 without one
C_First(name) ==
    IF C_Count(name) = 0 THEN 0
    ELSE CHOOSE i \in DOMAIN calls :
            /\ calls[i] = name
            /\ \A j \in 1..(i - 1) : calls[j] # name

-----------------------------------------------------------------------------
(* Claims about the fallback solver, continued                             *)

C_EquationKinds == {"common_equation", "linear_equation", "generic_equation"}

C_ArithmeticKinds ==
    {"arithmetic", "division_by_zero", "unsupported_operation", "unparsed_arithmetic"}

\* the templates of the first class of the fixed order that the question matches
C_ClassKinds(question) ==
    IF Contains(question, "=") THEN C_EquationKinds
    ELSE IF _is_simple_arithmetic(question) THEN C_ArithmeticKinds
    ELSE IF ContainsAny(LowerStr(question), {"derivative", "differentiate"})
         THEN {"derivative"}
    ELSE IF ContainsAny(LowerStr(question), {"integral", "integrate"}) THEN {"integral"}
    ELSE IF ContainsAny(LowerStr(question), GeometryWords) THEN {"geometry"}
    ELSE IF Contains(question, "%") \/ Contains(LowerStr(question), "percent")
         THEN {"percentage"}
    ELSE IF ContainsAny(question, ArithOps) \/ ContainsAny(LowerStr(question), OperationWords)
         THEN {"general_arithmetic"}
    ELSE {"general_math"}

\* C21, as stated: every question gets, without raising, one non-empty answer,
\* from the template of the first class it matches in the order equation, pure
\* arithmetic, derivative, integral, geometry, percent, operator, default.
C21_Original ==
    solverPc = "done" =>
        /\ solverAnswer.kind # "raised"
        /\ solverAnswer.kind \in C_ClassKinds(solverQuestion)
        /\ AnswerText(solverAnswer) # ""


-----------------------------------------------------------------------------
(* Claims about the reasoning trace and the calls of a resolution          *)

\* the positions of the entries of the trace that begin with the prefix
C_Entries(prefix) ==
    {i \in DOMAIN response.reasoning_steps :
        /\ Len(response.reasoning_steps[i]) >= Len(prefix)
        /\ Prefix(response.reasoning_steps[i], Len(prefix)) = prefix}

C_KbEntries == C_Entries("Searched knowledge base")
C_WebEntries == C_Entries("Enhanced with Google search")
C_GeneratedEntries == C_Entries("Generated comprehensive step-by-step solution")

\* the web search was called, returned, and gave at least one result
C_SearchGaveResults ==
    /\ C_Count("google_search_service.search_math_query returned") = 1
    /\ google_search_data.present
    /\ Len(google_search_data.results) > 0

\* C22: the reasoning steps of a response list the stages in the order they
\* ran: one entry for the knowledge base search, with its confidence, before
\* every other stage entry; one entry for the web search, with the number of
\* its results, exactly when the web search ran and gave results, after the
\* entry of the knowledge base; one entry for the generation, after both;
\* whether the answer is from the Gemini API or from the fallback solver.
C22_TraceInExecutionOrder ==
    pipelinePc = "responded" =>
        /\ Cardinality(C_KbEntries) = 1
        /\ Cardinality(C_GeneratedEntries) = 1
        /\ \A i \in C_KbEntries :
              /\ response.reasoning_steps[i]
                    = "Searched knowledge base (confidence: " \o Fixed2(kb_confidence) \o ")"
              /\ \A j \in C_WebEntries \cup C_GeneratedEntries : i < j
        /\ Cardinality(C_WebEntries) = (IF C_SearchGaveResults THEN 1 ELSE 0)
        /\ \A j \in C_WebEntries :
              /\ response.reasoning_steps[j]
                    = "Enhanced with Google search ("
                         \o ToString(Len(google_search_data.results)) \o " results)"
              /\ \A g \in C_GeneratedEntries : j < g

\* a response of the fallback solver after a web search that gave results:
\* knowledge base, web search, generation
C22_Witness ==
    /\ pipelinePc = "responded"
    /\ response.answer.kind # "gemini"
    /\ C_SearchGaveResults
    /\ C_KbEntries = {2}
    /\ C_WebEntries = {3}
    /\ C_GeneratedEntries = {4}


C_KbCall == "knowledge_base.query"
C_LlmCall == "llm_service.generate_step_by_step_solution"

\* how many calls of that name stand at the positions lo..hi of calls
C_CountIn(name, lo, hi) ==
    Cardinality({i \in DOMAIN calls : lo <= i /\ i <= hi /\ calls[i] = name})

\* the position at which the knowledge base query returned, or the end of calls
C_KbReturned ==
    IF C_Count("knowledge_base.query returned") = 0 THEN Len(calls)
    ELSE C_First("knowledge_base.query returned")

-----------------------------------------------------------------------------
(* Claims about the web search agent                                       *)

\* the search of the engine ended with a dict that reports success
C_EngineSucceeded(engine) ==
    search_tasks[engine].kind = "dict" /\ search_tasks[engine].success

RECURSIVE C_InEngineOrder(_)
\* the results of the engines that succeeded, from the i-th engine on
C_InEngineOrder(i) ==
    IF i > Len(search_engines) THEN <<>>
    ELSE (IF C_EngineSucceeded(search_engines[i])
          THEN search_tasks[search_engines[i]].results ELSE <<>>)
             \o C_InEngineOrder(i + 1)

C_NoResultsAnswer ==
    /\ search_result.answer = "No relevant information found through web search."
    /\ search_result.confidence = 10
    /\ search_result.sources = <<>>

\* C24, as stated: an engine that raises or reports failure is dropped and the
\* results of the engines that succeeded are used, in the order of the
\* engines whatever the order in which they ended; the result "No relevant
\* information found" with confidence 0.1 and no sources is returned exactly
\* when no engine gave a result.
C24_Original ==
    webPc = "returned" =>
        /\ search_result.raw_results = C_InEngineOrder(1)
        /\ C_NoResultsAnswer <=> C_InEngineOrder(1) = <<>>

-----------------------------------------------------------------------------
\* C25: a query log exists for a query id only if the resolution of that
\* query returned a successful response to the caller; nothing is created or
\* kept for a query the input filter rejected, the output filter rejected or
\* an internal error ended, a failure inside log_query included.
C_Answered == pipelinePc \in {"responded", "feedback"}

C25_Original ==
    \A query_id \in DOMAIN query_logs \cup DOMAIN db_query_logs :
        C_Answered /\ response.query_id = query_id

-----------------------------------------------------------------------------
\* C26: whenever process_feedback returns success = false (invalid type,
\* unknown query id, or an exception during persistence or handling), the
\* stored feedback entries are exactly what they were before the call.
C26_Original ==
    (C_Submitted /\ ~feedback_result.success) =>
        /\ feedback_entries = feedback_call.before.feedback_entries
        /\ db_feedback = feedback_call.before.db_feedback

-----------------------------------------------------------------------------
\* the last call was get_feedback_for_query
C_Listed == feedback_call.op = "get_feedback_for_query"

\* C27: get_feedback_for_query(q) returns each feedback submitted for q once,
\* no feedback id twice in the list, and no feedback submitted for another
\* query.
C27_Original ==
    C_Listed =>
        /\ \A i, j \in DOMAIN feedback_list :
              i # j => feedback_list[i].feedback_id # feedback_list[j].feedback_id
        /\ \A i \in DOMAIN feedback_list :
              feedback_list[i].query_id = feedback_call.query_id

-----------------------------------------------------------------------------
\* C28: once process_feedback has returned for a feedback, the row of the
\* feedback in the table and its entry in memory agree on the processed flag;
\* after a successful call both have processed = true.
C28_Original ==
    (/\ C_Submitted
     /\ feedback_result.feedback_id \in DOMAIN feedback_entries
     /\ feedback_result.feedback_id \in DOMAIN db_feedback) =>
        /\ db_feedback[feedback_result.feedback_id].processed
              = feedback_entries[feedback_result.feedback_id].processed
        /\ feedback_result.success =>
              db_feedback[feedback_result.feedback_id].processed

-----------------------------------------------------------------------------
\* C29: in every response the query endpoint returns, used_google_search is
\* true exactly when google_search_count is at least 1, and used_google_search
\* being true implies that the kb_confidence reported is below 0.7.
C29_SearchMetadataConsistent ==
    C_Answered =>
        /\ response.used_google_search <=> response.google_search_count >= 1
        /\ response.used_google_search => response.kb_confidence < 70

\* a response built with two results of the search, after the knowledge base
\* found documents
C29_Witness ==
    /\ pipelinePc = "responded"
    /\ response.used_google_search
    /\ response.google_search_count = 2
    /\ response.kb_confidence > 0
    /\ response.kb_confidence < 70

-----------------------------------------------------------------------------
\* the input passed the empty, minimum-length, blocked-pattern and relevance
\* checks of InputFilter.process
C_PassedChecks ==
    /\ filterPc = "done"
    /\ C_Scored(filterInput)
    /\ 5 * _calculate_enhanced_math_score(C_Content(filterInput)) >= ScoreScale

C_Penalty(issue, cost) == IF C_HasIssue(filterResult, issue) THEN cost ELSE 0

\* C30: an input that passed the empty, minimum-length, blocked-pattern and
\* relevance checks is always accepted: the penalties of content_too_long
\* (0.1) and excessive_special_chars (0.2), alone or together, leave the
\* confidence above 0.5, and the confidence of an accepted input is one of
\* 1.0, 0.9, 0.8, 0.7.
C30_PenaltiesNeverReject ==
    /\ C_PassedChecks =>
          /\ filterResult.is_safe
          /\ filterResult.confidence > 50
          /\ filterResult.confidence
                = 100 - C_Penalty("content_too_long", 10)
                      - C_Penalty("excessive_special_chars", 20)
    /\ (filterPc = "done" /\ filterResult.is_safe) =>
          filterResult.confidence \in {100, 90, 80, 70}

\* an input with both penalties, accepted with confidence 0.7
C30_Witness ==
    /\ C_PassedChecks
    /\ filterResult.issues = <<"content_too_long", "excessive_special_chars">>
    /\ filterResult.confidence = 70
    /\ filterResult.is_safe
====
